---- MODULE Spec2Model ----
(***************************************************************************)
(* A model of the PHI de-identification pipeline: the LLM detector         *)
(* (response parsing, per-page detection, retry, sequential and concurrent *)
(* page fan-out) and the orchestrator (confidence filter, mode policy,     *)
(* redaction, result assembly).                                            *)
(*                                                                         *)
(* Conventions.  A Python str is a sequence of characters, written as a    *)
(* tuple of one-character strings; a run of characters that no operation   *)
(* looks inside may be written as one element.  Category and subcategory   *)
(* identifiers, dictionary keys and exception names are only compared for  *)
(* equality and are TLA+ strings.  A float is a fixed-point integer, One   *)
(* standing for 1.0.  A JSON value is a tagged record [t, v]; a JSON       *)
(* object (a Python dict) is a TLA+ record whose DOMAIN is its key set.    *)
(***************************************************************************)
EXTENDS Integers, Sequences, FiniteSets, TLC

VARIABLES
    args,           \* SpecParse: the arguments of the call under check
    ret,            \* SpecParse: what the call produced
    pages,          \* detector: the pages handed to detect / detect_async
    categories,     \* detector: the taxonomy argument (None or a list of dicts)
    entry,          \* detector: the method called, "detect" or "detect_async"
    async_client,   \* detector: whether self.async_client is set
    dpc,            \* detector: position of the call
    cur,            \* detector: index of the page the sequential loop is at
    tasks,          \* detector: per page, the state of its _detect_page(_async) call
    all_findings,   \* detector: the accumulated findings
    raised,         \* detector: the exception detect raised, if any
    doc,            \* pipeline: the input document
    enable_ocr,     \* extractor: self.enable_ocr
    mode,           \* pipeline: self.mode
    synthesizer,    \* pipeline: self.synthesizer, None or the generator's cache
    config,         \* pipeline: the config argument
    ppc,            \* pipeline: the stage process / process_async is at
    stages,         \* pipeline: the stages run so far, each with the findings it was given
    findings,       \* pipeline: the local variable findings
    output,         \* pipeline: the annotations of the saved output document
    result          \* pipeline: what process / process_async produced

fvars == <<args, ret>>
pvars == <<doc, enable_ocr, mode, synthesizer, config, ppc, stages, findings, output, result>>
dvars == <<pages, categories, entry, async_client, dpc, cur, tasks, all_findings, raised>>
outside == <<fvars, pvars>>       \* what no detector action changes
vars == <<fvars, dvars, pvars>>

---------------------------------------------------------------------------
(* Bounds of the model *)

MaxItems == 2       \* most elements in a response's findings array
MaxPages == 2       \* most pages of a document
RngOutcomes == 2    \* distinct values one draw of the generator's rng may give
MaxFindings == 3    \* most findings handed to the confidence filter or the mode policy on its own
MaxDocuments == 2   \* most documents one pipeline instance is given in turn

---------------------------------------------------------------------------
(* Floats: fixed point, four decimals *)

One == 100 * 100
Hundredths(n) == n * 100            \* Hundredths(85) is 0.85

---------------------------------------------------------------------------
(* Python str operations *)

Whitespace == {" ", "\n", "\t"}

\* s in t
IsSubstring(s, t) ==
    \E i \in 0..(Len(t) - Len(s)) : SubSeq(t, i + 1, i + Len(s)) = s

RECURSIVE LStrip(_)
LStrip(s) ==
    IF s # <<>> /\ Head(s) \in Whitespace THEN LStrip(Tail(s)) ELSE s

RECURSIVE RStrip(_)
RStrip(s) ==
    IF s # <<>> /\ s[Len(s)] \in Whitespace
    THEN RStrip(SubSeq(s, 1, Len(s) - 1))
    ELSE s

\* s.strip()
strip(s) == RStrip(LStrip(s))

---------------------------------------------------------------------------
(* JSON values, as json.loads produces them *)

JStr(s) == [t |-> "str", v |-> s]
JNum(n) == [t |-> "num", v |-> n]
JArr(a) == [t |-> "arr", v |-> a]
JNull == [t |-> "null"]
JNaN == [t |-> "nan"]           \* json.loads accepts the NaN token

IsDict(v) == "t" \notin DOMAIN v
IsStr(v) == ~IsDict(v) /\ v.t = "str"
IsHashable(v) == ~IsDict(v) /\ v.t # "arr"

\* bool(v)
Truthy(v) ==
    IF IsDict(v) THEN DOMAIN v # {}
    ELSE CASE v.t = "str" -> v.v # <<>>
           [] v.t = "num" -> v.v # 0
           [] v.t = "arr" -> v.v # <<>>
           [] v.t = "null" -> FALSE
           [] OTHER -> TRUE

\* d.get(key, default)
Get(d, key, default) == IF key \in DOMAIN d THEN d[key] ELSE default

\* Optional[...] arguments
None == [some |-> FALSE]
Some(x) == [some |-> TRUE, value |-> x]

\* Outcomes of a call: a returned value or a raised exception
Return(v) == [ok |-> TRUE, value |-> v]
Raise(e) == [ok |-> FALSE, error |-> e]

\* float(v)
float(v) ==
    IF IsDict(v) THEN Raise("TypeError")
    ELSE CASE v.t \in {"num", "nan"} -> Return(v)
           [] v.t = "str" -> Raise("ValueError")    \* strings here are not numerals
           [] OTHER -> Raise("TypeError")

\* a < b on floats: every comparison with NaN is false
FloatLt(a, b) == a.t = "num" /\ b.t = "num" /\ a.v < b.v

\* min(a, b) and max(a, b) as Python computes them: the first argument is
\* kept unless the second compares strictly beyond it
min(a, b) == IF FloatLt(b, a) THEN b ELSE a
max(a, b) == IF FloatLt(a, b) THEN b ELSE a

---------------------------------------------------------------------------
(* entities.py *)

PageContent(n, text) == [page_number |-> n, text |-> text, is_ocr |-> FALSE]

SensitiveFinding(text, category, subcategory, page_number, confidence, rationale, replacement) ==
    [text |-> text, category |-> category, subcategory |-> subcategory,
     page_number |-> page_number, confidence |-> confidence,
     rationale |-> rationale, replacement |-> replacement,
     bounding_boxes |-> <<>>, is_multiline |-> FALSE]

---------------------------------------------------------------------------
(* llm_detector.py: _parse_response *)

Tag(name) == <<"[", name, "]">>

_default_placeholder(category) ==
    CASE category = "patient_name" -> Tag("PATIENT_NAME")
      [] category = "date" -> Tag("DATE")
      [] category = "phone_number" -> Tag("PHONE_NUMBER")
      [] category = "fax_number" -> Tag("FAX_NUMBER")
      [] category = "email_address" -> Tag("EMAIL_ADDRESS")
      [] category = "ssn" -> Tag("SSN")
      [] category = "medical_record_number" -> Tag("MEDICAL_RECORD_NUMBER")
      [] category = "health_plan_number" -> Tag("HEALTH_PLAN_NUMBER")
      [] category = "account_number" -> Tag("ACCOUNT_NUMBER")
      [] category = "license_number" -> Tag("LICENSE_NUMBER")
      [] category = "geographic_data" -> Tag("ADDRESS")
      [] category = "age_over_89" -> Tag("AGE_OVER_89")
      [] category = "device_id" -> Tag("DEVICE_ID")
      [] category = "web_url" -> Tag("URL")
      [] category = "ip_address" -> Tag("IP_ADDRESS")
      [] OTHER -> Tag("REDACTED")

DefaultConfidence == JNum(Hundredths(80))

ClampConfidence_NoCeiling(raw) == max(JNum(0), raw)

\* max(0.0, min(1.0, raw_confidence))
ClampConfidence(raw) == max(JNum(0), min(JNum(One), raw))

InTaxonomy_AnyString(item_category, valid_categories) == item_category.t = "str"

\* item_category in valid_categories, for a hashable item_category
InTaxonomy(item_category, valid_categories) ==
    item_category.t = "str" /\ item_category.v \in valid_categories

\* One pass of the loop body of _parse_response over one element of the
\* findings iterable: "skip" (continue), "raise", or "finding".
ParseItem(item, page, valid_categories) ==
    IF ~IsDict(item) THEN [kind |-> "raise", error |-> "AttributeError"]
    ELSE
    LET item_category == Get(item, "category", JStr(""))
        item_text == Get(item, "text", JStr(<<>>))
        raw == float(Get(item, "confidence", DefaultConfidence))
        given == Get(item, "replacement", JStr(<<>>))
    IN  IF ~IsHashable(item_category)
        THEN [kind |-> "raise", error |-> "TypeError"]
        ELSE IF ~InTaxonomy(item_category, valid_categories)
        THEN [kind |-> "skip"]
        ELSE IF ~IsStr(item_text)
        THEN [kind |-> "raise", error |-> "TypeError"]
        ELSE IF ~IsSubstring(item_text.v, page.text)
        THEN [kind |-> "skip"]
        ELSE IF ~raw.ok
        THEN [kind |-> "raise", error |-> raw.error]
        ELSE IF "text" \notin DOMAIN item
        THEN [kind |-> "raise", error |-> "KeyError"]
        ELSE [kind |-> "finding",
              finding |-> SensitiveFinding(
                  item_text.v,
                  item_category.v,
                  Get(item, "subcategory", JStr("unknown")).v,
                  page.page_number,
                  ClampConfidence(raw.value),
                  Get(item, "rationale", JStr(<<>>)).v,
                  IF Truthy(given) THEN given.v
                  ELSE _default_placeholder(item_category.v))]

ParseLoop_DefectsSkipped(items, found, page, valid_categories) ==
    LET o == [i \in DOMAIN items |-> ParseItem(items[i], page, valid_categories)]
        kept == SelectSeq(o, LAMBDA x : x.kind = "finding")
    IN  Return(found \o [i \in DOMAIN kept |-> kept[i].finding])
RECURSIVE ParseLoop(_, _, _, _)
ParseLoop(items, found, page, valid_categories) ==
    IF items = <<>> THEN Return(found)
    ELSE LET o == ParseItem(Head(items), page, valid_categories)
         IN  CASE o.kind = "raise" -> Raise(o.error)
               [] o.kind = "skip" ->
                    ParseLoop(Tail(items), found, page, valid_categories)
               [] OTHER ->
                    ParseLoop(Tail(items), Append(found, o.finding),
                              page, valid_categories)

\* What "for item in x" iterates over, or the TypeError of a value that is
\* not iterable.  Iterating a str gives its characters, a dict its keys.
Iterate(x) ==
    IF IsDict(x)
    THEN Return([i \in 1..Cardinality(DOMAIN x) |-> JStr(<<"key">>)])
    ELSE CASE x.t = "arr" -> Return(x.v)
           [] x.t = "str" -> Return([i \in 1..Len(x.v) |-> JStr(<<x.v[i]>>)])
           [] OTHER -> Raise("TypeError")

\* A response is [choices |-> <<content, ...>>]; a content is the text of the
\* message, given by what json.loads makes of it: [t |-> "malformed"] when
\* it is not JSON, the decoded value otherwise.
Malformed == [t |-> "malformed"]

FindingsOf_NoDefault(data) == Get(data, "findings", JNull)

\* data.get("findings", [])
FindingsOf(data) == Get(data, "findings", JArr(<<>>))

_parse_response(response, page, valid_categories) ==
    IF response.choices = <<>> THEN Raise("IndexError")
    ELSE
    LET data == response.choices[1]
    IN  IF ~IsDict(data) /\ data.t = "malformed" THEN Raise("JSONDecodeError")
        ELSE IF ~IsDict(data) THEN Raise("AttributeError")
        ELSE LET it == Iterate(FindingsOf(data))
             IN  IF ~it.ok THEN it
                 ELSE ParseLoop(it.value, <<>>, page, valid_categories)

---------------------------------------------------------------------------
(* Inputs of the parse step *)

PageTextA == <<"J", "o", " ", "J", "o", " ", "7">>
PageTextB == <<"7", " ", "K">>
PageTextBlank == <<" ", "\n">>

TaxonomyIds == {{"patient_name", "date", "ssn"}, {"date", "vehicle_id"}}

\* d with d[key] set to value, and d without key
Override(d, key, value) ==
    [k \in DOMAIN d \cup {key} |-> IF k = key THEN value ELSE d[k]]
Without(d, key) == [k \in DOMAIN d \ {key} |-> d[k]]

ValidItem ==
    [text |-> JStr(<<"J", "o">>), category |-> JStr("patient_name"),
     subcategory |-> JStr("full_name"), confidence |-> JNum(Hundredths(95)),
     rationale |-> JStr(<<"a name">>)]

CategoryValues ==
    {JStr("bad_cat"), JStr("date"), JStr("vehicle_id"), JNum(5),
     JArr(<<JStr("patient_name")>>)}
TextValues == {JStr(<<"X">>), JStr(<<"7">>), JStr(<<>>), JNum(7)}
ConfidenceValues ==
    {JNum(Hundredths(150)), JNum(Hundredths(-50)), JNum(One), JNum(0),
     JNum(Hundredths(85)), JStr(<<"high">>), JNull, JNaN}
ReplacementValues ==
    {JStr(<<"Sam">>), JStr(Tag("NAME")), JStr(<<>>), JNull}

ItemSamples ==
    {ValidItem, JStr(<<"x">>)}
    \cup {Without(ValidItem, k) : k \in DOMAIN ValidItem}
    \cup {Override(ValidItem, "category", v) : v \in CategoryValues}
    \cup {Override(ValidItem, "text", v) : v \in TextValues}
    \cup {Override(ValidItem, "confidence", v) : v \in ConfidenceValues}
    \cup {Override(ValidItem, "replacement", v) : v \in ReplacementValues}
    \cup {Override(Override(ValidItem, "category", JStr("bad_cat")), "text", JNum(7)),
          Override(Override(ValidItem, "category", JStr("bad_cat")), "confidence", JNull),
          Override(Override(ValidItem, "text", JStr(<<"X">>)), "confidence", JStr(<<"high">>)),
          Override(Without(ValidItem, "text"), "category", JStr("bad_cat"))}

RECURSIVE SeqsUpTo(_, _)
SeqsUpTo(S, n) ==
    IF n = 0 THEN {<<>>}
    ELSE LET shorter == SeqsUpTo(S, n - 1)
         IN  shorter \cup {Append(q, x) : q \in shorter, x \in S}

\* Message contents: text that is not JSON, JSON that is not an object,
\* objects without a findings key, findings that are not arrays, and
\* findings arrays of up to MaxItems elements.
ContentSamples ==
    {Malformed, JArr(<<>>), JNull,
     [other_key |-> JStr(<<"some value">>)],
     [findings |-> JStr(<<"n", "o">>)], [findings |-> JStr(<<>>)],
     [findings |-> JNull], [findings |-> [text |-> JStr(<<"J", "o">>)]]}
    \cup {[findings |-> JArr(q)] : q \in SeqsUpTo(ItemSamples, MaxItems)}

ResponseSamples ==
    {[choices |-> <<>>]} \cup {[choices |-> <<c>>] : c \in ContentSamples}

---------------------------------------------------------------------------
(* prompt_builder.py: DefaultPromptBuilder.build *)

\* A taxonomy entry with every key build reads; the wording of display, desc
\* and example, and the subcategory lists, only reach the prompt text
Category(id) ==
    [category |-> id, display |-> <<"display">>, desc |-> <<"desc">>,
     example |-> <<"example">>, subcategories |-> <<>>]

DEFAULT_CATEGORY_DEFINITIONS ==
    <<Category("patient_name"), Category("date"), Category("phone_number"),
      Category("fax_number"), Category("email_address"), Category("ssn"),
      Category("medical_record_number"), Category("health_plan_number"),
      Category("account_number"), Category("license_number"),
      Category("geographic_data"), Category("age_over_89"),
      Category("vehicle_id"), Category("device_id"), Category("web_url"),
      Category("ip_address"), Category("biometric_id"), Category("photo")>>

\* The keys build subscripts: a missing one is a KeyError
CategoryKeys == {"category", "display", "desc", "example"}
SubcategoryKeys == {"display", "subcategory", "desc", "example"}

BuildRaises(cat) ==
    \/ ~(CategoryKeys \subseteq DOMAIN cat)
    \/ \E i \in DOMAIN Get(cat, "subcategories", <<>>) :
          ~(SubcategoryKeys \subseteq DOMAIN cat.subcategories[i])

\* build(page, categories): the PromptContext, of which the model keeps
\* valid_categories and the page the messages embed
build(page, cats) ==
    IF \E i \in DOMAIN cats : BuildRaises(cats[i])
    THEN Raise("KeyError")
    ELSE Return([valid_categories |-> {cats[i].category : i \in DOMAIN cats},
                 messages |-> page.text])

---------------------------------------------------------------------------
(* llm_detector.py: retry policy, _detect_page, detect, detect_async *)

_RETRYABLE ==
    {"RateLimitError", "APIConnectionError", "APITimeoutError", "InternalServerError"}

MaxAttempts == 3        \* stop_after_attempt(3)

\* What one attempt of chat.completions.create ends in
ApiError(e) == [kind |-> "error", error |-> e]
ApiResponse(r) == [kind |-> "response", response |-> r]
NoOutcome == [kind |-> "none"]

_retry_policy_AnyError(n, outcome) == outcome.kind = "error" /\ n < MaxAttempts

\* _retry_policy after attempt number n ended in outcome: TRUE when another
\* attempt follows (after the back-off sleep), FALSE when the outcome
\* surfaces (the response returned, or the exception re-raised)
_retry_policy(n, outcome) ==
    /\ outcome.kind = "error"
    /\ outcome.error \in _RETRYABLE
    /\ n < MaxAttempts

TryBlock_Uncaught(page, ctx, outcome) ==
    IF outcome.kind = "error" THEN Raise(outcome.error)
    ELSE _parse_response(outcome.response, page, ctx.valid_categories)

\* The try block of _detect_page / _detect_page_async, given what _call_api
\* surfaced: except Exception returns []
TryBlock(page, ctx, outcome) ==
    IF outcome.kind = "error" THEN Return(<<>>)
    ELSE LET r == _parse_response(outcome.response, page, ctx.valid_categories)
         IN  IF r.ok THEN r ELSE Return(<<>>)

\* _detect_page / _detect_page_async as a whole, given what the call
\* surfaced: build runs before the try block, so its exception is raised
_detect_page(page, cats, outcome) ==
    LET ctx == build(page, cats)
    IN  IF ~ctx.ok THEN Raise(ctx.error) ELSE TryBlock(page, ctx.value, outcome)

\* categories, or the default taxonomy when None
Taxonomy == IF categories.some THEN categories.value ELSE DEFAULT_CATEGORY_DEFINITIONS

\* page.text.strip() is non-empty
NonBlank(page) == strip(page.text) # <<>>

Pending == [pending |-> TRUE]
TaskInit == [st |-> "none", attempts |-> 0, last |-> NoOutcome, result |-> Pending]

RECURSIVE Flatten(_)
Flatten(ss) == IF ss = <<>> THEN <<>> ELSE Head(ss) \o Flatten(Tail(ss))

\* A page's call after one more attempt ended in outcome
AfterAttempt(t, page, outcome) ==
    LET n == t.attempts + 1
    IN  IF _retry_policy(n, outcome)
        THEN [t EXCEPT !.attempts = n, !.last = outcome]
        ELSE [t EXCEPT !.attempts = n, !.last = outcome, !.st = "done",
                       !.result = _detect_page(page, Taxonomy, outcome)]

\* detect, or detect_async without an async client (detect in an executor)
Sequential == entry = "detect" \/ ~async_client

\* detect_async lines 122-126: one coroutine per non-blank page handed to gather
DetectBegin ==
    /\ dpc = "start"
    /\ all_findings' = <<>>
    /\ IF Sequential
       THEN dpc' = "loop" /\ UNCHANGED tasks
       ELSE /\ dpc' = "gather"
            /\ tasks' = [p \in DOMAIN pages |->
                            IF NonBlank(pages[p])
                            THEN [TaskInit EXCEPT !.st = "ready"]
                            ELSE TaskInit]
    /\ UNCHANGED <<outside, pages, categories, entry, async_client, cur, raised>>

\* detect line 77
DetectReturn ==
    /\ dpc = "loop"
    /\ cur > Len(pages)
    /\ dpc' = "returned"
    /\ UNCHANGED <<outside, pages, categories, entry, async_client, cur, tasks, all_findings, raised>>

\* detect lines 73-74
SkipBlankPage ==
    /\ dpc = "loop"
    /\ cur <= Len(pages)
    /\ ~NonBlank(pages[cur])
    /\ cur' = cur + 1
    /\ UNCHANGED <<outside, pages, categories, entry, async_client, dpc, tasks, all_findings, raised>>

\* _detect_page line 86: build runs before the try block, so its exception
\* leaves _detect_page and detect
DetectPage ==
    /\ dpc = "loop"
    /\ cur <= Len(pages)
    /\ NonBlank(pages[cur])
    /\ LET ctx == build(pages[cur], Taxonomy)
       IN  IF ctx.ok
           THEN /\ tasks' = [tasks EXCEPT ![cur].st = "calling"]
                /\ dpc' = "calling"
                /\ UNCHANGED raised
           ELSE /\ dpc' = "raised"
                /\ raised' = ctx.error
                /\ UNCHANGED tasks
    /\ UNCHANGED <<outside, pages, categories, entry, async_client, cur, all_findings>>

\* One attempt of _call_api for the page the loop is at; when the outcome
\* surfaces, the rest of _detect_page and line 75 of detect
_call_api(outcome) ==
    /\ dpc = "calling"
    /\ LET t == AfterAttempt(tasks[cur], pages[cur], outcome)
       IN  /\ tasks' = [tasks EXCEPT ![cur] = t]
           /\ CASE t.st # "done" -> UNCHANGED <<all_findings, cur, dpc, raised>>
                [] t.st = "done" /\ t.result.ok ->
                     /\ all_findings' = all_findings \o t.result.value
                     /\ cur' = cur + 1
                     /\ dpc' = "loop"
                     /\ UNCHANGED raised
                [] OTHER ->
                     /\ dpc' = "raised"
                     /\ raised' = t.result.error
                     /\ UNCHANGED <<all_findings, cur>>
    /\ UNCHANGED <<outside, pages, categories, entry, async_client>>

\* _detect_page_async up to its first await: build, then the first request
_detect_page_async(p) ==
    /\ dpc = "gather"
    /\ tasks[p].st = "ready"
    /\ LET ctx == build(pages[p], Taxonomy)
       IN  tasks' = [tasks EXCEPT ![p] =
                        IF ctx.ok THEN [@ EXCEPT !.st = "calling"]
                        ELSE [@ EXCEPT !.st = "done",
                                       !.result = _detect_page(pages[p], Taxonomy, NoOutcome)]]
    /\ UNCHANGED <<outside, pages, categories, entry, async_client, dpc, cur, all_findings, raised>>

\* One attempt of _call_api_async for page p; when the outcome surfaces, the
\* rest of _detect_page_async
_call_api_async(p, outcome) ==
    /\ dpc = "gather"
    /\ tasks[p].st = "calling"
    /\ tasks' = [tasks EXCEPT ![p] = AfterAttempt(@, pages[p], outcome)]
    /\ UNCHANGED <<outside, pages, categories, entry, async_client, dpc, cur, all_findings, raised>>

RECURSIVE MergeUntilFailure(_)
MergeUntilFailure(ts) ==
    IF ts = <<>> \/ (Head(ts).st = "done" /\ Head(ts).last.kind = "error") THEN <<>>
    ELSE (IF Head(ts).st = "done" /\ Head(ts).result.ok THEN Head(ts).result.value ELSE <<>>)
         \o MergeUntilFailure(Tail(ts))

\* detect_async lines 128-139: gather has every result; exceptions are
\* logged, lists are merged in page order
Merge(ts) ==
    Flatten([p \in DOMAIN ts |->
                IF ts[p].st = "done" /\ ts[p].result.ok
                THEN ts[p].result.value ELSE <<>>])

\* asyncio.gather returning as soon as one task has finished
Gather_FirstCompleted ==
    /\ dpc = "gather"
    /\ \E p \in DOMAIN tasks : tasks[p].st = "done"
    /\ all_findings' = Merge(tasks)
    /\ dpc' = "returned"
    /\ UNCHANGED <<outside, pages, categories, entry, async_client, cur, tasks, raised>>

\* await asyncio.gather(..., return_exceptions=True) and the merge loop
Gather ==
    /\ dpc = "gather"
    /\ \A p \in DOMAIN tasks : tasks[p].st \in {"none", "done"}
    /\ all_findings' = Merge(tasks)
    /\ dpc' = "returned"
    /\ UNCHANGED <<outside, pages, categories, entry, async_client, cur, tasks, raised>>

---------------------------------------------------------------------------
(* synthesizer.py: SyntheticDataGenerator *)

EmptyCache == [k \in {} |-> <<>>]

\* The pools, as far as RngOutcomes draws reach into them
FIRST_NAMES == <<"Alex", "Jordan", "Taylor">>
LAST_NAMES == <<"Anderson", "Baker", "Clark">>
PROVIDERS == <<"Dr. A. Smith", "Dr. B. Johnson", "Dr. C. Williams">>
CITIES == <<"Anytown", "Springfield", "Riverside">>
DOMAINS == <<"email.com", "mail.org", "example.com">>
Digits == <<"1", "2", "3">>

\* name.lower(), for the names of the pools above
lower(name) ==
    CASE name = "Alex" -> "alex" [] name = "Jordan" -> "jordan" [] name = "Taylor" -> "taylor"
      [] name = "Anderson" -> "anderson" [] name = "Baker" -> "baker" [] name = "Clark" -> "clark"

\* The generator of generator_map for category, run with the rng giving its
\* pick-th outcome
Generator(category, subcategory, pick) ==
    CASE category = "patient_name" ->
            (CASE subcategory = "first_name" -> <<FIRST_NAMES[pick]>>
               [] subcategory = "last_name" -> <<LAST_NAMES[pick]>>
               [] subcategory = "provider_name" -> <<PROVIDERS[pick]>>
               [] OTHER -> <<FIRST_NAMES[pick], " ", LAST_NAMES[pick]>>)
      [] category = "date" -> <<"0", Digits[pick], "/15/2025">>
      [] category = "phone_number" -> <<"(", "555", ") 555-000", Digits[pick]>>
      [] category = "fax_number" -> <<"Fax: ", "(", "555", ") 555-000", Digits[pick]>>
      [] category = "email_address" ->
            <<lower(FIRST_NAMES[pick]), ".", lower(LAST_NAMES[pick]), "@", DOMAINS[pick]>>
      [] category = "ssn" -> <<"123-45-678", Digits[pick]>>
      [] category = "medical_record_number" -> <<"MRN-", "1000000", Digits[pick]>>
      [] category = "health_plan_number" -> <<"ABC", "10000000", Digits[pick]>>
      [] category = "account_number" -> <<"ACCT-", "10000000", Digits[pick]>>
      [] category = "license_number" -> <<"S", "1000000", Digits[pick]>>
      [] category = "geographic_data" ->
            (CASE subcategory = "zip_code" -> <<"1000", Digits[pick]>>
               [] subcategory = "city" -> <<CITIES[pick]>>
               [] subcategory = "county" -> <<CITIES[pick], " County">>
               [] OTHER -> <<"10", Digits[pick], " ", "Oak Lane">>)
      [] category = "age_over_89" -> <<"90+">>
      [] category = "device_id" -> <<"DEV-", "AB10000", Digits[pick]>>
      [] category = "web_url" -> <<"http://example.com/redacted">>
      [] category = "ip_address" -> <<"10.", "0.0.", Digits[pick]>>
      [] OTHER -> Tag("REDACTED")

reset_KeepsCache(cache) == cache

\* reset(): self._cache.clear()
reset(cache) == EmptyCache

\* f"{category}:{original_text}"
CacheKey(category, original_text) == <<category, ":">> \o original_text

\* generate(category, subcategory, original_text) on cache, the rng giving
\* its pick-th outcome: the replacement and the cache afterwards
generate_NoCache(cache, category, subcategory, original_text, pick) ==
    LET r == Generator(category, subcategory, pick)
    IN  [value |-> r,
         cache |-> [k \in DOMAIN cache \cup {CacheKey(category, original_text)} |->
                       IF k = CacheKey(category, original_text) THEN r ELSE cache[k]]]

generate(cache, category, subcategory, original_text, pick) ==
    LET cache_key == CacheKey(category, original_text)
    IN  IF cache_key \in DOMAIN cache
        THEN [value |-> cache[cache_key], cache |-> cache]
        ELSE LET r == Generator(category, subcategory, pick)
             IN  [value |-> r,
                  cache |-> [k \in DOMAIN cache \cup {cache_key} |->
                                IF k = cache_key THEN r ELSE cache[k]]]

---------------------------------------------------------------------------
(* pdf_extractor.py: PDFExtractor *)

_MIN_TEXT_LENGTH == 30

\* A page of the input document: its text layer, and what _ocr_page gives
\* for it (empty when Tesseract is unavailable or fails)
DocPage(text, ocr) == [text |-> text, ocr |-> ocr]

\* _ocr_page(page): "" when Tesseract is not available (_check_ocr_available)
\* or when rendering or recognition raises, else the recognized text
_ocr_page(available, tesseract) ==
    IF ~available THEN <<>>
    ELSE IF tesseract.ok THEN tesseract.value
    ELSE <<>>

\* The body of extract's loop for page page_num
ExtractPage_AdoptsEqual(page, page_num) ==
    IF /\ Len(strip(page.text)) < _MIN_TEXT_LENGTH
       /\ enable_ocr
       /\ page.ocr # <<>>
       /\ Len(strip(page.ocr)) >= Len(strip(page.text))
    THEN [PageContent(page_num, page.ocr) EXCEPT !.is_ocr = TRUE]
    ELSE PageContent(page_num, page.text)
ExtractPage(page, page_num) ==
    IF /\ Len(strip(page.text)) < _MIN_TEXT_LENGTH
       /\ enable_ocr
       /\ page.ocr # <<>>
       /\ Len(strip(page.ocr)) > Len(strip(page.text))
    THEN [PageContent(page_num, page.ocr) EXCEPT !.is_ocr = TRUE]
    ELSE PageContent(page_num, page.text)

\* extract(pdf_path) on a document that opens
extract(d) == [i \in DOMAIN d.pages |-> ExtractPage(d.pages[i], i - 1)]

---------------------------------------------------------------------------
(* pdf_redactor.py: PDFRedactor *)

\* page.search_for(needle) on a page whose text layer is text: the start
\* of every occurrence, left to right, one occurrence not overlapping the next
RECURSIVE SearchFrom(_, _, _)
SearchFrom(text, needle, i) ==
    IF needle = <<>> \/ i + Len(needle) - 1 > Len(text) THEN <<>>
    ELSE IF SubSeq(text, i, i + Len(needle) - 1) = needle
    THEN <<i>> \o SearchFrom(text, needle, i + Len(needle))
    ELSE SearchFrom(text, needle, i + 1)

\* The rectangle of a hit: characters are one unit wide, lines 14 apart, 12 high
LineOf(text, i) == Cardinality({j \in 1..(i - 1) : text[j] = "\n"})
ColumnOf(text, i) == Cardinality({j \in 1..(i - 1) : \A k \in j..(i - 1) : text[k] # "\n"})
Rect(text, i, n) ==
    [x0 |-> ColumnOf(text, i), y0 |-> 14 * LineOf(text, i),
     x1 |-> ColumnOf(text, i) + n, y1 |-> 14 * LineOf(text, i) + 12]

search_for(text, needle) ==
    LET hits == SearchFrom(text, needle, 1)
    IN  [h \in DOMAIN hits |-> Rect(text, hits[h], Len(needle))]

\* s.split(): the maximal runs of non-whitespace characters
RECURSIVE split(_)
split(s) ==
    LET t == LStrip(s)
        RECURSIVE WordEnd(_)
        WordEnd(n) == IF n < Len(t) /\ t[n + 1] \notin Whitespace THEN WordEnd(n + 1) ELSE n
    IN  IF t = <<>> THEN <<>>
        ELSE <<SubSeq(t, 1, WordEnd(1))>> \o split(SubSeq(t, WordEnd(1) + 1, Len(t)))

\* " ".join(words)
RECURSIVE join(_)
join(words) ==
    IF words = <<>> THEN <<>>
    ELSE IF Len(words) = 1 THEN words[1]
    ELSE words[1] \o <<" ">> \o join(Tail(words))

\* The three styles of the class docstring, by replacement
Style(replacement) ==
    IF replacement = <<>> THEN "mask"
    ELSE IF Head(replacement) = "[" THEN "placeholder"
    ELSE "synthetic"

\* __init__: self.fill_color, the default; colours are (r, g, b) in hundredths
fill_color == <<0, 0, 0>>

\* _add_annot(page, rect, replacement): the redaction annotation added; text
\* <<>> and font None are an annotation given no text (the font size, which
\* no branch depends on, is left out)
_add_annot_BracketUnchecked(page, rect, replacement) ==
    IF replacement = <<>>
    THEN [page |-> page, rect |-> rect, text |-> <<>>, style |-> Style(replacement),
          fill |-> fill_color, fontname |-> None, text_color |-> None]
    ELSE [page |-> page, rect |-> rect, text |-> replacement, style |-> Style(replacement),
          fill |-> <<100, 100, 100>>, fontname |-> Some("helv"),
          text_color |-> Some(<<10, 10, 60>>)]
_add_annot(page, rect, replacement) ==
    IF replacement = <<>>
    THEN [page |-> page, rect |-> rect, text |-> <<>>, style |-> Style(replacement),
          fill |-> fill_color, fontname |-> None, text_color |-> None]
    ELSE IF Head(replacement) = "["
    THEN [page |-> page, rect |-> rect, text |-> replacement, style |-> Style(replacement),
          fill |-> <<15, 15, 22>>, fontname |-> Some("cour"),
          text_color |-> Some(<<100, 100, 100>>)]
    ELSE [page |-> page, rect |-> rect, text |-> replacement, style |-> Style(replacement),
          fill |-> <<100, 100, 100>>, fontname |-> Some("helv"),
          text_color |-> Some(<<10, 10, 60>>)]

\* Lines 47-51: the searches made for one finding on its page, in order
Searches_Both(text, finding) ==
    <<[kind |-> "exact", needle |-> finding.text,
       found |-> search_for(text, finding.text)],
      [kind |-> "normalized", needle |-> join(split(finding.text)),
       found |-> search_for(text, join(split(finding.text)))]>>
Searches(text, finding) ==
    LET exact == search_for(text, finding.text)
        normalized_text == join(split(finding.text))
    IN  IF exact = <<>>
        THEN <<[kind |-> "exact", needle |-> finding.text, found |-> exact],
               [kind |-> "normalized", needle |-> normalized_text,
                found |-> search_for(text, normalized_text)]>>
        ELSE <<[kind |-> "exact", needle |-> finding.text, found |-> exact]>>

\* Lines 47-61 for one finding on its page: the rectangles found and the
\* finding with its boxes and multiline flag set
Locate_Accumulate(text, finding) ==
    LET done == Searches(text, finding)
    IN  [finding EXCEPT !.bounding_boxes = @ \o done[Len(done)].found]
Locate(text, finding) ==
    LET done == Searches(text, finding)
        text_instances == done[Len(done)].found
        multiline ==
            IF Len(text_instances) > 1
            THEN Cardinality({text_instances[b].y0 : b \in DOMAIN text_instances}) > 1
            ELSE IF Len(text_instances) = 1
            THEN text_instances[1].y1 - text_instances[1].y0 > 20
            ELSE finding.is_multiline
    IN  [finding EXCEPT !.bounding_boxes = text_instances, !.is_multiline = multiline]

\* Lines 63-65: the annotations added for a located finding, one per rectangle
Annotations_OnePerFinding(f) ==
    [b \in DOMAIN f.bounding_boxes \cap {1} |->
        _add_annot(f.page_number, f.bounding_boxes[b], f.replacement)]
Annotations(f) ==
    [b \in DOMAIN f.bounding_boxes |->
        _add_annot(f.page_number, f.bounding_boxes[b], f.replacement)]

\* findings_by_page.items(): the page numbers in order of first appearance
RECURSIVE PageOrder(_, _)
PageOrder(fs, seen) ==
    IF fs = <<>> THEN <<>>
    ELSE IF Head(fs).page_number \in seen THEN PageOrder(Tail(fs), seen)
    ELSE <<Head(fs).page_number>> \o PageOrder(Tail(fs), seen \cup {Head(fs).page_number})

\* apply_redactions(input, output, findings) on document d (the search
\* reads each page's text layer): the findings as it leaves them, the annotations added (in the
\* order added) and the count returned
apply_redactions(d, fs) ==
    LET onDoc(f) == f.page_number < Len(d.pages)
        located == [i \in DOMAIN fs |->
                       IF onDoc(fs[i]) THEN Locate(d.pages[fs[i].page_number + 1].text, fs[i])
                       ELSE fs[i]]
        order == PageOrder(fs, {})
        ofPage(n) == SelectSeq(located, LAMBDA f : f.page_number = n /\ onDoc(f))
        annots == Flatten([k \in DOMAIN order |->
                     Flatten([j \in DOMAIN ofPage(order[k]) |->
                                 Annotations(ofPage(order[k])[j])])])
    IN  [findings |-> located, annots |-> annots, count |-> Len(annots)]

---------------------------------------------------------------------------
(* pipeline.py: RedactionPipeline *)

VALID_MODES == {"mask", "placeholder", "synthetic"}

\* __init__ line 34
ResolveMode_ToMask(m) == IF m \in VALID_MODES THEN m ELSE "mask"

ResolveMode(m) == IF m \in VALID_MODES THEN m ELSE "placeholder"

ResolveThreshold_AsGiven(threshold) == threshold

\* threshold / 100.0 if threshold > 1 else threshold
ResolveThreshold(threshold) == IF threshold > One THEN threshold \div 100 ELSE threshold

_apply_confidence_filter_KeepAll(fs, cfg) == fs

\* _apply_confidence_filter(findings, config)
_apply_confidence_filter(fs, cfg) ==
    IF "confidence_threshold" \notin DOMAIN cfg THEN fs
    ELSE LET t == ResolveThreshold(cfg.confidence_threshold)
         IN  SelectSeq(fs, LAMBDA f : f.confidence.v >= t)

\* The synthetic branch of _apply_mode over fs[i..], picks[i] being the rng's
\* outcome should fs[i] need a fresh value
RECURSIVE Synthesize(_, _, _, _)
Synthesize(fs, cache, picks, i) ==
    IF i > Len(fs) THEN [findings |-> fs, cache |-> cache]
    ELSE LET g == generate(cache, fs[i].category, fs[i].subcategory, fs[i].text, picks[i])
         IN  Synthesize([fs EXCEPT ![i].replacement = g.value], g.cache, picks, i + 1)

_apply_mode_Untouched(m, synth, fs, picks) == [findings |-> fs, synthesizer |-> synth]

\* _apply_mode(findings): the findings and the synthesizer afterwards
_apply_mode(m, synth, fs, picks) ==
    IF m = "mask"
    THEN [findings |-> [i \in DOMAIN fs |-> [fs[i] EXCEPT !.replacement = <<>>]],
          synthesizer |-> synth]
    ELSE IF m = "synthetic" /\ synth.some
    THEN LET r == Synthesize(fs, reset(synth.value), picks, 1)
         IN  [findings |-> r.findings, synthesizer |-> Some(r.cache)]
    ELSE [findings |-> fs, synthesizer |-> synth]

Log(stage, given) == Append(stages, [stage |-> stage, given |-> given])

\* process lines 48-53: extractor.extract(input_path); an unreadable source raises
Extract ==
    /\ ppc = "extract"
    /\ IF doc.readable
       THEN /\ pages' = extract(doc)
            /\ ppc' = "detect"
            /\ UNCHANGED result
       ELSE /\ ppc' = "raised"
            /\ result' = Raise("FileDataError")
            /\ UNCHANGED pages
    /\ stages' = Log("extract", <<>>)
    /\ UNCHANGED <<fvars, categories, entry, async_client, dpc, cur, tasks, all_findings, raised>>
    /\ UNCHANGED <<doc, enable_ocr, mode, synthesizer, config, findings, output>>

\* process line 56 / process_async line 99: the call of the detector
Detect ==
    /\ ppc = "detect"
    /\ ppc' = "detecting"
    /\ dpc' = "start"
    /\ cur' = 1
    /\ tasks' = [p \in DOMAIN pages |-> TaskInit]
    /\ all_findings' = <<>>
    /\ stages' = Log("detect", <<>>)
    /\ UNCHANGED <<fvars, pages, categories, entry, async_client, raised>>
    /\ UNCHANGED <<doc, enable_ocr, mode, synthesizer, config, findings, output, result>>

\* The detector's return, or its exception leaving process
Detected ==
    /\ ppc = "detecting"
    /\ dpc \in {"returned", "raised"}
    /\ IF dpc = "returned"
       THEN findings' = all_findings /\ ppc' = "filter" /\ UNCHANGED result
       ELSE result' = Raise(raised) /\ ppc' = "raised" /\ UNCHANGED findings
    /\ UNCHANGED <<fvars, dvars, doc, enable_ocr, mode, synthesizer, config, stages, output>>

\* process line 59
ConfidenceFilter ==
    /\ ppc = "filter"
    /\ findings' = _apply_confidence_filter(findings, config)
    /\ stages' = Log("filter", findings)
    /\ ppc' = "mode"
    /\ UNCHANGED <<fvars, dvars, doc, enable_ocr, mode, synthesizer, config, output, result>>

\* process line 60
ApplyMode ==
    /\ ppc = "mode"
    /\ \E picks \in [DOMAIN findings -> 1..RngOutcomes] :
          LET r == _apply_mode(mode, synthesizer, findings, picks)
          IN  findings' = r.findings /\ synthesizer' = r.synthesizer
    /\ stages' = Log("mode", findings)
    /\ ppc' = "redact"
    /\ UNCHANGED <<fvars, dvars, doc, enable_ocr, mode, config, output, result>>

\* process lines 62-66: redactor.apply_redactions; a failed save raises
Redact ==
    /\ ppc = "redact"
    /\ LET r == apply_redactions(doc, findings)
       IN  IF doc.writable
           THEN /\ findings' = r.findings
                /\ output' = [saved |-> TRUE, annots |-> r.annots, count |-> r.count]
                /\ ppc' = "assemble"
                /\ UNCHANGED result
           ELSE /\ findings' = r.findings
                /\ ppc' = "raised"
                /\ result' = Raise("OSError")
                /\ UNCHANGED output
    /\ stages' = Log("redact", findings)
    /\ UNCHANGED <<fvars, dvars, doc, enable_ocr, mode, synthesizer, config>>

\* process lines 68-77
Assemble ==
    /\ ppc = "assemble"
    /\ result' = Return([findings |-> findings,
                         total_pages |-> Len(pages),
                         redacted_count |-> output.count,
                         categories_requested |-> IF categories.some THEN categories.value ELSE <<>>,
                         ocr_pages |-> Cardinality({p \in DOMAIN pages : pages[p].is_ocr})])
    /\ stages' = Log("assemble", findings)
    /\ ppc' = "returned"
    /\ UNCHANGED <<fvars, dvars, doc, enable_ocr, mode, synthesizer, config, findings, output>>

---------------------------------------------------------------------------
(* Inputs of the detector *)

ApiErrors == {"RateLimitError", "AuthenticationError"}

Item(text, category, confidence) ==
    [text |-> JStr(text), category |-> JStr(category),
     subcategory |-> JStr("unknown"), confidence |-> JNum(Hundredths(confidence))]

FindingsResponse(items) == [choices |-> <<[findings |-> JArr(items)]>>]

DetectResponses ==
    {[choices |-> <<Malformed>>],
     FindingsResponse(<<Item(<<"J", "o">>, "patient_name", 50),
                        Item(<<"7">>, "date", 70),
                        Item(<<"X">>, "ssn", 90)>>),
     FindingsResponse(<<Item(<<"7">>, "date", 90), Without(ValidItem, "text")>>)}

ApiOutcomes ==
    {ApiError(e) : e \in ApiErrors} \cup {ApiResponse(r) : r \in DetectResponses}

PageTexts == {PageTextA, PageTextB, PageTextBlank}

\* The extractor numbers pages from 0
PageLists ==
    {[i \in 1..Len(q) |-> PageContent(i - 1, q[i])] : q \in SeqsUpTo(PageTexts, MaxPages)}

TaxonomySamples ==
    {None,
     Some(<<Category("patient_name"), Category("date")>>),
     Some(<<Category("date"), [category |-> "patient_name"]>>)}

PipelineIdle ==
    /\ doc = [readable |-> TRUE, writable |-> TRUE, pages |-> <<>>]
    /\ enable_ocr = TRUE
    /\ mode = "placeholder"
    /\ synthesizer = None
    /\ config = [k \in {} |-> 0]
    /\ ppc = "idle"
    /\ stages = <<>>
    /\ findings = <<>>
    /\ output = [saved |-> FALSE]
    /\ result = Pending

DetectorIdle ==
    /\ pages = <<>>
    /\ categories = None
    /\ entry = "detect"
    /\ async_client = FALSE
    /\ dpc = "idle"
    /\ cur = 1
    /\ tasks = <<>>
    /\ all_findings = <<>>
    /\ raised = ""

---------------------------------------------------------------------------
(* evaluation/run_benchmark.py *)

\* str.lower() on the letters that occur in the benchmark texts
LowerText(s) ==
    [i \in DOMAIN s |-> CASE s[i] = "J" -> "j" [] s[i] = "O" -> "o" [] OTHER -> s[i]]

_normalize_KeepsCase(text) == join(split(text))
_normalize(text) == join(split(LowerText(text)))

\* _match_findings(ground_truth, detected): the sets tp, fp, fn
_match_findings(ground_truth, detected) ==
    LET gt_set == {<<_normalize(ground_truth[i].text), ground_truth[i].category>> :
                      i \in DOMAIN ground_truth}
        det_set == {<<_normalize(detected[i].text), detected[i].category>> :
                       i \in DOMAIN detected}
    IN  [tp |-> gt_set \cap det_set, fp |-> det_set \ gt_set, fn |-> gt_set \ det_set]

\* A float that is the quotient of two integers, kept as <<numerator,
\* denominator>>; a / b raises on b = 0
Zero == <<0, 1>>
IsZero(x) == x[1] = 0
Quotient(x, y) == IF IsZero(y) THEN Raise("ZeroDivisionError")
                  ELSE Return(<<x[1] * y[2], x[2] * y[1]>>)
Sum(x, y) == <<x[1] * y[2] + y[1] * x[2], x[2] * y[2]>>
Product(x, y) == <<x[1] * y[1], x[2] * y[2]>>

\* The return of _compute_metrics once its three quotients are there
Metrics(precision, recall, f1) ==
    IF ~precision.ok THEN precision
    ELSE IF ~recall.ok THEN recall
    ELSE IF ~f1.ok THEN f1
    ELSE Return([precision |-> precision.value, recall |-> recall.value, f1 |-> f1.value])

\* _compute_metrics(tp_count, fp_count, fn_count)
_compute_metrics_Unguarded(tp_count, fp_count, fn_count) ==
    LET precision == Quotient(<<tp_count, 1>>, <<tp_count + fp_count, 1>>)
        recall == Quotient(<<tp_count, 1>>, <<tp_count + fn_count, 1>>)
        f1 == IF precision.ok /\ recall.ok
              THEN Quotient(Product(<<2, 1>>, Product(precision.value, recall.value)),
                            Sum(precision.value, recall.value))
              ELSE Return(Zero)
    IN  Metrics(precision, recall, f1)
_compute_metrics(tp_count, fp_count, fn_count) ==
    LET precision == IF tp_count + fp_count # 0
                     THEN Quotient(<<tp_count, 1>>, <<tp_count + fp_count, 1>>)
                     ELSE Return(Zero)
        recall == IF tp_count + fn_count # 0
                  THEN Quotient(<<tp_count, 1>>, <<tp_count + fn_count, 1>>)
                  ELSE Return(Zero)
        f1 == IF precision.ok /\ recall.ok /\ ~IsZero(Sum(precision.value, recall.value))
              THEN Quotient(Product(<<2, 1>>, Product(precision.value, recall.value)),
                            Sum(precision.value, recall.value))
              ELSE Return(Zero)
    IN  Metrics(precision, recall, f1)

---------------------------------------------------------------------------
(* SpecParse: _parse_response called directly on one response *)

InitParse ==
    /\ args \in {[response |-> r, page |-> PageContent(0, t), valid_categories |-> v] :
                    r \in ResponseSamples, t \in {PageTextA, PageTextB},
                    v \in TaxonomyIds}
    /\ ret = [state |-> "pending"]
    /\ DetectorIdle
    /\ PipelineIdle

ParseResponse ==
    /\ ret.state = "pending"
    /\ ret' = [state |-> "done",
               result |-> _parse_response(args.response, args.page,
                                          args.valid_categories)]
    /\ UNCHANGED <<args, dvars, pvars>>

NextParse == ParseResponse

SpecParse == InitParse /\ [][NextParse]_vars

---------------------------------------------------------------------------
(* SpecDetect: detect or detect_async called on a page list *)

InitDetect ==
    /\ args = <<>>
    /\ ret = [state |-> "pending"]
    /\ pages \in PageLists
    /\ categories \in TaxonomySamples
    /\ \E e \in {<<"detect", TRUE>>, <<"detect_async", TRUE>>, <<"detect_async", FALSE>>} :
          entry = e[1] /\ async_client = e[2]
    /\ dpc = "start"
    /\ cur = 1
    /\ tasks = [p \in DOMAIN pages |-> TaskInit]
    /\ all_findings = <<>>
    /\ raised = ""
    /\ PipelineIdle

NextDetect ==
    \/ DetectBegin
    \/ DetectReturn
    \/ SkipBlankPage
    \/ DetectPage
    \/ \E o \in ApiOutcomes : _call_api(o)
    \/ \E p \in DOMAIN pages : _detect_page_async(p)
    \/ \E p \in DOMAIN pages, o \in ApiOutcomes : _call_api_async(p, o)
    \/ Gather

SpecDetect == InitDetect /\ [][NextDetect]_vars

\* Every service call eventually returns or fails, and the event loop and the
\* calling thread keep running: a step that can be taken is eventually taken
\* Termination depends on a page only through whether it is blank: one text
\* of each kind
InitDetectLive ==
    /\ InitDetect
    /\ \A p \in DOMAIN pages : pages[p].text \in {PageTextA, PageTextBlank}

SpecDetectLive == InitDetectLive /\ [][NextDetect]_vars /\ WF_vars(NextDetect)

---------------------------------------------------------------------------
(* SpecFilter: _apply_confidence_filter on its own *)

ConfidenceSamples == {0, Hundredths(50), Hundredths(70), Hundredths(90), One}

\* Fractions, the boundary 1, and whole-number percentages
ThresholdSamples ==
    {0, Hundredths(50), Hundredths(70), One, Hundredths(150),
     2 * One, 50 * One, 70 * One, 100 * One}

FilterConfigs ==
    {[k \in {} |-> 0]} \cup {[confidence_threshold |-> v] : v \in ThresholdSamples}

FilterFindings ==
    {SensitiveFinding(<<"7">>, "date", "unknown", 0, JNum(c), <<>>, Tag("DATE")) :
        c \in ConfidenceSamples}

InitFilter ==
    /\ args \in {[findings |-> q, config |-> c] :
                    q \in SeqsUpTo(FilterFindings, MaxFindings), c \in FilterConfigs}
    /\ ret = [state |-> "pending"]
    /\ DetectorIdle
    /\ PipelineIdle

ApplyConfidenceFilter ==
    /\ ret.state = "pending"
    /\ ret' = [state |-> "done",
               result |-> _apply_confidence_filter(args.findings, args.config)]
    /\ UNCHANGED <<args, dvars, pvars>>

NextFilter == ApplyConfidenceFilter

SpecFilter == InitFilter /\ [][NextFilter]_vars

---------------------------------------------------------------------------
(* SpecMode: one pipeline instance, its mode policy run on one document's
   findings after another *)

\* RedactionPipeline(..., synthesizer, mode): build_pipeline passes a
\* synthesizer exactly for mode "synthetic"; a direct caller may pass any
Constructions ==
    {<<"mask", None>>, <<"placeholder", None>>, <<"synthetic", Some(EmptyCache)>>,
     <<"synthetic", None>>, <<"redact", None>>}

ModeFinding(text, category, subcategory, replacement) ==
    SensitiveFinding(text, category, subcategory, 0, JNum(Hundredths(90)), <<>>, replacement)

\* A name found as a full name and as a first name; the same text found as
\* a date; a finding with a replacement of the service's own; a category
\* without a generator
ModeFindings ==
    {ModeFinding(<<"J", "o">>, "patient_name", "full_name", Tag("PATIENT_NAME")),
     ModeFinding(<<"J", "o">>, "patient_name", "first_name", Tag("PATIENT_NAME")),
     ModeFinding(<<"J", "o">>, "date", "unknown", Tag("DATE")),
     ModeFinding(<<"7">>, "date", "unknown", <<"X">>),
     ModeFinding(<<"7">>, "vehicle_id", "unknown", Tag("VEHICLE_ID"))}

\* The documents that may be followed by another on the same instance
SeriesDocuments ==
    {<<ModeFinding(<<"J", "o">>, "patient_name", "full_name", Tag("PATIENT_NAME"))>>,
     <<ModeFinding(<<"J", "o">>, "patient_name", "first_name", Tag("PATIENT_NAME")),
       ModeFinding(<<"7">>, "date", "unknown", <<"X">>)>>}

\* args.mode is the mode value the constructor was given
InitMode ==
    /\ \E c \in Constructions, fs \in SeqsUpTo(ModeFindings, MaxFindings) :
          /\ args = [mode |-> c[1], findings |-> fs, document |-> 1]
          /\ mode = ResolveMode(c[1])
          /\ synthesizer = c[2]
    /\ ret = [state |-> "pending"]
    /\ DetectorIdle
    /\ doc = [readable |-> TRUE, writable |-> TRUE, pages |-> <<>>]
    /\ enable_ocr = TRUE
    /\ config = [k \in {} |-> 0]
    /\ ppc = "idle"
    /\ stages = <<>>
    /\ findings = <<>>
    /\ output = [saved |-> FALSE]
    /\ result = Pending

\* _apply_mode(findings) for the current document; ret keeps the rng's
\* outcomes and the synthesizer as it was before the call
ModePolicy ==
    /\ ret.state = "pending"
    /\ \E picks \in [DOMAIN args.findings -> 1..RngOutcomes] :
          LET r == _apply_mode(mode, synthesizer, args.findings, picks)
          IN  /\ ret' = [state |-> "done", result |-> r.findings,
                         picks |-> picks, before |-> synthesizer]
              /\ synthesizer' = r.synthesizer
    /\ UNCHANGED <<args, dvars, doc, enable_ocr, mode, config, ppc, stages, findings, output, result>>

\* The same instance is given the next document
NextDocument ==
    /\ ret.state = "done"
    /\ args.document < MaxDocuments
    /\ args.findings \in SeriesDocuments
    /\ \E fs \in SeriesDocuments :
          args' = [args EXCEPT !.findings = fs, !.document = @ + 1]
    /\ ret' = [state |-> "pending"]
    /\ UNCHANGED <<dvars, pvars>>

NextMode == ModePolicy \/ NextDocument

SpecMode == InitMode /\ [][NextMode]_vars

---------------------------------------------------------------------------
(* SpecBenchmark: run_benchmark's loop over the manifest, given each
   document's ground truth and what the pipeline returned for it; ret holds
   the accumulators and the report *)

Entity(text, category) == [text |-> text, category |-> category]

\* One truth item and nothing detected; nothing at all; the same pair
\* detected in other spellings, next to a wrong category and a missed item;
\* a truth item listed twice; a detection without truth; a failed run
BenchmarkCases ==
    {[ground_truth |-> <<Entity(<<"J", "o">>, "patient_name")>>, detected |-> Return(<<>>)],
     [ground_truth |-> <<>>, detected |-> Return(<<>>)],
     [ground_truth |-> <<Entity(<<"J", "o">>, "patient_name"), Entity(<<"7">>, "date")>>,
      detected |-> Return(<<Entity(<<"J", "O">>, "patient_name"),
                            Entity(<<" ", "j", "o", "\n">>, "patient_name"),
                            Entity(<<"J", "o">>, "date")>>)],
     [ground_truth |-> <<Entity(<<"J", "o", " ", " ", "7">>, "patient_name"),
                         Entity(<<"j", "o", "\n", "7">>, "patient_name")>>,
      detected |-> Return(<<Entity(<<"J", "o", " ", "7">>, "patient_name")>>)],
     [ground_truth |-> <<>>, detected |-> Return(<<Entity(<<"7">>, "date")>>)],
     [ground_truth |-> <<Entity(<<"7">>, "date")>>, detected |-> Raise("FileDataError")]}

\* defaultdict(int) of the categories seen so far, one more for each pair of
\* pairs (lines 129-134)
Tally(counts, pairset) ==
    LET cats == DOMAIN counts \cup {pr[2] : pr \in pairset}
    IN  [c \in cats |->
            (IF c \in DOMAIN counts THEN counts[c] ELSE 0)
            + Cardinality({pr \in pairset : pr[2] = c})]
CountOf(counts, c) == IF c \in DOMAIN counts THEN counts[c] ELSE 0

InitBenchmark ==
    /\ args \in SeqsUpTo(BenchmarkCases, MaxDocuments)
    /\ ret = [pc |-> "loop", total_tp |-> 0, total_fp |-> 0, total_fn |-> 0,
              cat_tp |-> [c \in {} |-> 0], cat_fp |-> [c \in {} |-> 0],
              cat_fn |-> [c \in {} |-> 0],
              per_doc |-> <<>>, overall |-> None, per_category |-> None]
    /\ DetectorIdle
    /\ PipelineIdle

\* Lines 102-153: one pass of the loop over the manifest
ScoreDocument ==
    /\ ret.pc = "loop"
    /\ Len(ret.per_doc) < Len(args)
    /\ LET item == args[Len(ret.per_doc) + 1]
           m == _match_findings(item.ground_truth, item.detected.value)
           scores == _compute_metrics(Cardinality(m.tp), Cardinality(m.fp), Cardinality(m.fn))
       IN  IF ~item.detected.ok
           THEN ret' = [ret EXCEPT !.per_doc = Append(@, [error |-> item.detected.error])]
           ELSE IF ~scores.ok
           THEN ret' = [ret EXCEPT !.pc = "raised"]
           ELSE ret' = [ret EXCEPT
                          !.total_tp = @ + Cardinality(m.tp),
                          !.total_fp = @ + Cardinality(m.fp),
                          !.total_fn = @ + Cardinality(m.fn),
                          !.cat_tp = Tally(@, m.tp),
                          !.cat_fp = Tally(@, m.fp),
                          !.cat_fn = Tally(@, m.fn),
                          !.per_doc = Append(@, [error |-> "", matched |-> m,
                                                 tp |-> Cardinality(m.tp),
                                                 fp |-> Cardinality(m.fp),
                                                 fn |-> Cardinality(m.fn),
                                                 scores |-> scores.value])]
    /\ UNCHANGED <<args, dvars, pvars>>

\* Lines 157-167: the overall scores of the totals and the scores of each
\* category that was counted
ScoreOverall ==
    /\ ret.pc = "loop"
    /\ Len(ret.per_doc) = Len(args)
    /\ LET scores == _compute_metrics(ret.total_tp, ret.total_fp, ret.total_fn)
           all_cats == DOMAIN ret.cat_tp \cup DOMAIN ret.cat_fp \cup DOMAIN ret.cat_fn
           of(cat) == _compute_metrics(CountOf(ret.cat_tp, cat), CountOf(ret.cat_fp, cat),
                                       CountOf(ret.cat_fn, cat))
       IN  IF scores.ok /\ \A cat \in all_cats : of(cat).ok
           THEN ret' = [ret EXCEPT !.pc = "reported", !.overall = Some(scores.value),
                                   !.per_category = Some([cat \in all_cats |->
                                        [tp |-> CountOf(ret.cat_tp, cat),
                                         fp |-> CountOf(ret.cat_fp, cat),
                                         fn |-> CountOf(ret.cat_fn, cat),
                                         scores |-> of(cat).value]])]
           ELSE ret' = [ret EXCEPT !.pc = "raised"]
    /\ UNCHANGED <<args, dvars, pvars>>

NextBenchmark == ScoreDocument \/ ScoreOverall

SpecBenchmark == InitBenchmark /\ [][NextBenchmark]_vars

---------------------------------------------------------------------------
(* SpecExtract: extract called directly on a document that opens; each page
   of args.document has its text layer and what Tesseract would do with its
   image; ret holds the pages extracted so far and the pages _ocr_page was
   called for *)

Chars(n) == [i \in 1..n |-> "a"]

\* Text layers just under, at and over the minimum length, with and without
\* whitespace around them, and what Tesseract does with the page: fails,
\* reads nothing, reads blanks, reads as much as or more than the text layer
ScanCases ==
    {<<<<>>, Raise("TesseractError")>>,
     <<<<>>, Return(<<" ", "\n">>)>>,
     <<Chars(3), Return(Chars(3) \o <<"\n">>)>>,
     <<Chars(3), Return(Chars(4))>>,
     <<<<" ">> \o Chars(_MIN_TEXT_LENGTH - 1) \o <<"\n">>, Return(Chars(_MIN_TEXT_LENGTH))>>,
     <<Chars(_MIN_TEXT_LENGTH - 1), Raise("TesseractError")>>,
     <<Chars(_MIN_TEXT_LENGTH), Return(Chars(_MIN_TEXT_LENGTH + 1))>>,
     <<Chars(_MIN_TEXT_LENGTH - 1), Return(<<>>)>>}

ScanPages == {[text |-> c[1], tesseract |-> c[2]] : c \in ScanCases}

InitExtract ==
    /\ \E q \in SeqsUpTo(ScanPages, MaxPages), available \in BOOLEAN :
          args = [document |-> [readable |-> TRUE, writable |-> TRUE, pages |-> q],
                  available |-> available]
    /\ ret = [pc |-> "loop", pages |-> <<>>, ocr_calls |-> <<>>]
    /\ DetectorIdle
    /\ doc = [readable |-> TRUE, writable |-> TRUE, pages |-> <<>>]
    /\ enable_ocr \in BOOLEAN
    /\ mode = "placeholder"
    /\ synthesizer = None
    /\ config = [k \in {} |-> 0]
    /\ ppc = "idle"
    /\ stages = <<>>
    /\ findings = <<>>
    /\ output = [saved |-> FALSE]
    /\ result = Pending

\* extract lines 66-88: one pass of the loop over the document's pages
ExtractNextPage ==
    /\ ret.pc = "loop"
    /\ Len(ret.pages) < Len(args.document.pages)
    /\ LET page_num == Len(ret.pages)
           page == args.document.pages[page_num + 1]
           called == Len(strip(page.text)) < _MIN_TEXT_LENGTH /\ enable_ocr
           ocr_text == IF called THEN _ocr_page(args.available, page.tesseract) ELSE <<>>
       IN  ret' = [ret EXCEPT
                     !.pages = Append(@, ExtractPage(DocPage(page.text, ocr_text), page_num)),
                     !.ocr_calls = @ \o (IF called THEN <<page_num>> ELSE <<>>)]
    /\ UNCHANGED <<args, dvars, pvars>>

\* extract lines 90-91
ExtractReturn ==
    /\ ret.pc = "loop"
    /\ Len(ret.pages) = Len(args.document.pages)
    /\ ret' = [ret EXCEPT !.pc = "returned"]
    /\ UNCHANGED <<args, dvars, pvars>>

NextExtract == ExtractNextPage \/ ExtractReturn

SpecExtract == InitExtract /\ [][NextExtract]_vars

---------------------------------------------------------------------------
(* SpecRender: process lines 60-64 on their own, the mode policy followed by
   the redactor, on a one-page document that holds every finding's text *)

RenderDocument == [readable |-> TRUE, writable |-> TRUE, pages |-> <<DocPage(PageTextA, <<>>)>>]

\* process line 64, given the findings the mode policy left
RenderFindings ==
    /\ ret.state = "done"
    /\ ~output.saved
    /\ LET r == apply_redactions(RenderDocument, ret.result)
       IN  output' = [saved |-> TRUE, annots |-> r.annots, count |-> r.count]
    /\ UNCHANGED <<fvars, dvars, doc, enable_ocr, mode, synthesizer, config, ppc, stages, findings, result>>

NextRender == ModePolicy \/ RenderFindings

SpecRender == InitMode /\ [][NextRender]_vars

---------------------------------------------------------------------------
(* SpecOverlap: two process_async runs on one pipeline instance in synthetic
   mode, as tasks of one event loop; a run is suspended at line 98 only *)

\* What the detection of a run returns
OverlapDetections ==
    {<<ModeFinding(<<"J", "o">>, "patient_name", "full_name", Tag("PATIENT_NAME")),
       ModeFinding(<<"J", "o">>, "patient_name", "first_name", Tag("PATIENT_NAME"))>>,
     <<ModeFinding(<<"J", "o">>, "patient_name", "first_name", Tag("PATIENT_NAME")),
       ModeFinding(<<"7">>, "date", "unknown", <<"X">>)>>,
     <<ModeFinding(<<"7">>, "date", "unknown", <<"X">>)>>}

RunInit == [pc |-> "start", overlapped |-> FALSE, findings |-> <<>>, picks |-> <<>>,
            redacted_count |-> 0]

InitOverlap ==
    /\ args \in [1..2 -> OverlapDetections]
    /\ ret = [r \in 1..2 |-> RunInit]
    /\ DetectorIdle
    /\ doc = RenderDocument
    /\ enable_ocr = TRUE
    /\ mode = "synthetic"
    /\ synthesizer = Some(EmptyCache)
    /\ config = [k \in {} |-> 0]
    /\ ppc = "idle"
    /\ stages = <<>>
    /\ findings = <<>>
    /\ output = [saved |-> FALSE]
    /\ result = Pending

\* process_async lines 87-98, up to the await of detect_async
BeginRun(r) ==
    /\ ret[r].pc = "start"
    /\ ret' = [ret EXCEPT ![r].pc = "awaiting",
                          ![r].overlapped = ret[3 - r].pc = "awaiting",
                          ![3 - r].overlapped = @ \/ ret[3 - r].pc = "awaiting"]
    /\ UNCHANGED <<args, dvars, pvars>>

\* process_async lines 98-122, from the return of detect_async to the
\* RedactionResult: no await in between
ResumeRun(r) ==
    /\ ret[r].pc = "awaiting"
    /\ LET kept == _apply_confidence_filter(args[r], config)
       IN  \E picks \in [DOMAIN kept -> 1..RngOutcomes] :
              LET m == _apply_mode(mode, synthesizer, kept, picks)
                  a == apply_redactions(doc, m.findings)
              IN  /\ ret' = [ret EXCEPT ![r].pc = "returned", ![r].findings = a.findings,
                                        ![r].picks = picks, ![r].redacted_count = a.count]
                  /\ synthesizer' = m.synthesizer
    /\ UNCHANGED <<args, dvars, doc, enable_ocr, mode, config, ppc, stages, findings, output, result>>

NextOverlap == \E r \in 1..2 : BeginRun(r) \/ ResumeRun(r)

SpecOverlap == InitOverlap /\ [][NextOverlap]_vars

---------------------------------------------------------------------------
(* SpecRedact: apply_redactions called directly, once and then a second time
   with the same input document and the same list of finding objects; ret
   holds the call's locals, the document being written and a record of the
   operations made on it *)

PageTextLines == <<"J", "o", "\n", "J", "o">>

RedactPages == {DocPage(PageTextA, <<>>), DocPage(PageTextLines, <<>>)}

RedactFinding(text, page_number, replacement) ==
    SensitiveFinding(text, "patient_name", "unknown", page_number,
                     JNum(Hundredths(90)), <<>>, replacement)

\* A text found twice on either page; a masked one; a text whose whitespace
\* differs from the page's (on no line of PageTextLines); a finding on the
\* second page; a finding behind the last page
RedactFindings ==
    {RedactFinding(<<"J", "o">>, 0, Tag("PATIENT_NAME")),
     RedactFinding(<<"7">>, 0, <<>>),
     RedactFinding(<<"J", "o", "\n", "7">>, 0, <<"A", "l">>),
     RedactFinding(<<"J", "o">>, 1, <<"A", "l">>),
     RedactFinding(<<"7">>, MaxPages, Tag("DATE"))}

\* findings_by_page[n]: the positions in fs of the findings of page n, in order
RECURSIVE IndicesOfPage(_, _, _)
IndicesOfPage(fs, n, i) ==
    IF i > Len(fs) THEN <<>>
    ELSE IF fs[i].page_number = n THEN <<i>> \o IndicesOfPage(fs, n, i + 1)
    ELSE IndicesOfPage(fs, n, i + 1)

InitRedact ==
    /\ \E q \in SeqsUpTo(RedactPages, MaxPages) \ {<<>>},
          fs \in SeqsUpTo(RedactFindings, MaxFindings) :
          args = [document |-> [readable |-> TRUE, writable |-> TRUE, pages |-> q],
                  findings |-> fs]
    /\ ret = [pc |-> "idle", application |-> "first", findings |-> args.findings,
              order |-> <<>>, k |-> 1, j |-> 1, annots |-> <<>>, committed |-> <<>>,
              log |-> <<>>, redaction_count |-> 0, saved |-> FALSE, first |-> None]
    /\ DetectorIdle
    /\ PipelineIdle

\* Lines 33-38: open the input, group the findings by page
Open ==
    /\ ret.pc = "idle"
    /\ ret' = [ret EXCEPT !.pc = "page", !.order = PageOrder(ret.findings, {}),
                          !.k = 1, !.j = 1, !.annots = <<>>, !.committed = <<>>,
                          !.log = <<>>, !.redaction_count = 0, !.saved = FALSE]
    /\ UNCHANGED <<args, dvars, pvars>>

\* Lines 41-42: a page number the document does not have
SkipPage ==
    /\ ret.pc = "page"
    /\ ret.k <= Len(ret.order)
    /\ ret.order[ret.k] >= Len(args.document.pages)
    /\ ret' = [ret EXCEPT !.k = @ + 1, !.j = 1]
    /\ UNCHANGED <<args, dvars, pvars>>

\* Lines 46-65: one pass of the inner loop, for the next finding of the page
RedactOne_CommitFirst ==
    /\ ret.pc = "page"
    /\ ret.k <= Len(ret.order)
    /\ ret.order[ret.k] < Len(args.document.pages)
    /\ ret.j <= Len(IndicesOfPage(ret.findings, ret.order[ret.k], 1))
    /\ LET page_num == ret.order[ret.k]
           i == IndicesOfPage(ret.findings, page_num, 1)[ret.j]
           text == args.document.pages[page_num + 1].text
           done == Searches(text, ret.findings[i])
           finding == Locate(text, ret.findings[i])
           added == Annotations(finding)
       IN  ret' = [ret EXCEPT
                     !.findings[i] = finding,
                     !.annots = @ \o added,
                     !.redaction_count = @ + Len(added),
                     !.committed = @ \o (IF ret.j = 1 THEN <<page_num>> ELSE <<>>),
                     !.log = @ \o (IF ret.j = 1 THEN <<[op |-> "commit", page |-> page_num]>> ELSE <<>>)
                               \o [n \in DOMAIN done |->
                                      [op |-> "search", page |-> page_num, finding |-> i,
                                       kind |-> done[n].kind, needle |-> done[n].needle,
                                       found |-> Len(done[n].found)]]
                               \o [n \in DOMAIN added |->
                                      [op |-> "annot", page |-> page_num, finding |-> i]],
                     !.j = @ + 1]
    /\ UNCHANGED <<args, dvars, pvars>>
RedactOne ==
    /\ ret.pc = "page"
    /\ ret.k <= Len(ret.order)
    /\ ret.order[ret.k] < Len(args.document.pages)
    /\ ret.j <= Len(IndicesOfPage(ret.findings, ret.order[ret.k], 1))
    /\ LET page_num == ret.order[ret.k]
           i == IndicesOfPage(ret.findings, page_num, 1)[ret.j]
           text == args.document.pages[page_num + 1].text
           done == Searches(text, ret.findings[i])
           finding == Locate(text, ret.findings[i])
           added == Annotations(finding)
       IN  ret' = [ret EXCEPT
                     !.findings[i] = finding,
                     !.annots = @ \o added,
                     !.redaction_count = @ + Len(added),
                     !.log = @ \o [n \in DOMAIN done |->
                                      [op |-> "search", page |-> page_num, finding |-> i,
                                       kind |-> done[n].kind, needle |-> done[n].needle,
                                       found |-> Len(done[n].found)]]
                               \o [n \in DOMAIN added |->
                                      [op |-> "annot", page |-> page_num, finding |-> i]],
                     !.j = @ + 1]
    /\ UNCHANGED <<args, dvars, pvars>>

\* Line 67: page.apply_redactions(), after the page's last finding
CommitPage ==
    /\ ret.pc = "page"
    /\ ret.k <= Len(ret.order)
    /\ ret.order[ret.k] < Len(args.document.pages)
    /\ ret.j > Len(IndicesOfPage(ret.findings, ret.order[ret.k], 1))
    /\ ret' = [ret EXCEPT !.committed = Append(@, ret.order[ret.k]),
                          !.log = Append(@, [op |-> "commit", page |-> ret.order[ret.k]]),
                          !.k = @ + 1, !.j = 1]
    /\ UNCHANGED <<args, dvars, pvars>>

\* Lines 69-71: save, close, return redaction_count
Save ==
    /\ ret.pc = "page"
    /\ ret.k > Len(ret.order)
    /\ ret' = [ret EXCEPT !.pc = "returned", !.saved = TRUE,
                          !.log = Append(@, [op |-> "save"])]
    /\ UNCHANGED <<args, dvars, pvars>>

\* The caller applies the same findings to the same input once more
Reapply ==
    /\ ret.pc = "returned"
    /\ ret.application = "first"
    /\ ret' = [ret EXCEPT !.pc = "idle", !.application = "second",
                          !.first = Some([redaction_count |-> ret.redaction_count,
                                          findings |-> ret.findings])]
    /\ UNCHANGED <<args, dvars, pvars>>

NextRedact == Open \/ SkipPage \/ RedactOne \/ CommitPage \/ Save \/ Reapply

SpecRedact == InitRedact /\ [][NextRedact]_vars

---------------------------------------------------------------------------
(* Spec: process or process_async run on one document *)

\* A page with a text layer, and an empty one that OCR reads nothing from
DocPages == {DocPage(PageTextA, <<>>), DocPage(PageTextBlank, <<>>)}

\* A scanned page: no text layer, OCR reads the text
ScannedPage == DocPage(<<>>, PageTextA)

\* Documents that open and save, with the extractor's OCR on; a scanned page
\* with OCR on and off; a document that does not open; one whose output
\* cannot be written
ExtractorCases ==
    {<<[readable |-> TRUE, writable |-> TRUE, pages |-> q], TRUE>> :
        q \in SeqsUpTo(DocPages, MaxPages)}
    \cup {<<[readable |-> TRUE, writable |-> TRUE, pages |-> <<ScannedPage>>], b>> :
            b \in BOOLEAN}
    \cup {<<[readable |-> FALSE, writable |-> TRUE, pages |-> <<DocPage(PageTextA, <<>>)>>], TRUE>>,
          <<[readable |-> TRUE, writable |-> FALSE, pages |-> <<DocPage(PageTextA, <<>>)>>], TRUE>>}

\* What one call of the service may do during a pipeline run
ServiceOutcomes ==
    {ApiError("RateLimitError"), ApiError("AuthenticationError"),
     ApiResponse(FindingsResponse(<<Item(<<"J", "o">>, "patient_name", 50),
                                    Item(<<"7">>, "date", 90)>>))}

Configs == {[k \in {} |-> 0], [confidence_threshold |-> 70 * One]}

Init ==
    /\ args = <<>>
    /\ ret = [state |-> "pending"]
    /\ \E c \in ExtractorCases : doc = c[1] /\ enable_ocr = c[2]
    /\ \E c \in Constructions : mode = ResolveMode(c[1]) /\ synthesizer = c[2]
    /\ config \in Configs
    /\ categories \in {None, Some(<<Category("date"), [category |-> "patient_name"]>>)}
    /\ \E e \in {<<"detect", TRUE>>, <<"detect_async", TRUE>>, <<"detect_async", FALSE>>} :
          entry = e[1] /\ async_client = e[2]
    /\ pages = <<>>
    /\ dpc = "idle"
    /\ cur = 1
    /\ tasks = <<>>
    /\ all_findings = <<>>
    /\ raised = ""
    /\ ppc = "extract"
    /\ stages = <<>>
    /\ findings = <<>>
    /\ output = [saved |-> FALSE]
    /\ result = Pending

Next ==
    \/ Extract
    \/ Detect
    \/ DetectBegin
    \/ DetectReturn
    \/ SkipBlankPage
    \/ DetectPage
    \/ \E outcome \in ServiceOutcomes : _call_api(outcome)
    \/ \E p \in DOMAIN pages : _detect_page_async(p)
    \/ \E p \in DOMAIN pages, outcome \in ServiceOutcomes : _call_api_async(p, outcome)
    \/ Gather
    \/ Detected
    \/ ConfidenceFilter
    \/ ApplyMode
    \/ Redact
    \/ Assemble

Spec == Init /\ [][Next]_vars

---------------------------------------------------------------------------
(* Claims about _parse_response, under SpecParse *)

Done == ret.state = "done"
Content == args.response.choices[1]
HasContent == args.response.choices # <<>>
IsFindingsArray(c) ==
    IsDict(c) /\ "findings" \in DOMAIN c /\ ~IsDict(c.findings) /\ c.findings.t = "arr"
ItemsOf(c) == c.findings.v

\* The two checks as the claim words them, on an item that is a JSON object:
\* its category (absent: the empty string) is a member of the taxonomy, and
\* its text (absent: the empty string) occurs verbatim in the page text
CategoryIsMember(item) ==
    LET c == Get(item, "category", JStr(""))
    IN  IsStr(c) /\ c.v \in args.valid_categories
TextOccurs(item) ==
    LET x == Get(item, "text", JStr(<<>>))
    IN  IsStr(x) /\ IsSubstring(x.v, args.page.text)
PassesBothChecks(item) == ~IsDict(item) \/ (CategoryIsMember(item) /\ TextOccurs(item))

\* The items the code drops by "continue": a hashable category outside the
\* taxonomy, or a category inside it with a string text absent from the page
DroppedByContinue(item) ==
    /\ IsDict(item)
    /\ LET c == Get(item, "category", JStr(""))
           x == Get(item, "text", JStr(<<>>))
       IN  /\ IsHashable(c)
           /\ \/ ~CategoryIsMember(item)
              \/ IsStr(x) /\ ~IsSubstring(x.v, args.page.text)
NotDroppedByContinue(item) == ~DroppedByContinue(item)

ParseOf(items) ==
    _parse_response(FindingsResponse(items), args.page, args.valid_categories)

FindingsValidated ==
    (Done /\ ret.result.ok) =>
        \A i \in DOMAIN ret.result.value :
            /\ ret.result.value[i].category \in args.valid_categories
            /\ IsSubstring(ret.result.value[i].text, args.page.text)

\* C1 as stated: every returned finding has a category of the taxonomy and a
\* text occurring verbatim in the page, and an item failing either check is
\* dropped without raising and without affecting the other items: the call
\* gives what it gives on the response without the failing items.
C1_AsStated ==
    /\ FindingsValidated
    /\ (Done /\ HasContent /\ IsFindingsArray(Content)) =>
          ret.result = ParseOf(SelectSeq(ItemsOf(Content), PassesBothChecks))

\* C1 (amended): every returned finding has a category of the taxonomy and a
\* text occurring verbatim in the page; an item with a hashable category
\* outside the taxonomy, or with a category inside it and a string text that
\* is absent from the page, is dropped without raising and without affecting
\* the other items.
C1_ValidatedAndSilentDrops ==
    /\ FindingsValidated
    /\ (Done /\ HasContent /\ IsFindingsArray(Content)) =>
          ret.result = ParseOf(SelectSeq(ItemsOf(Content), NotDroppedByContinue))

\* A response of two items, one dropped for its category or text, the other returned
C1_Witness ==
    /\ Done /\ HasContent /\ IsFindingsArray(Content)
    /\ Len(ItemsOf(Content)) = 2
    /\ \E i \in 1..2 : DroppedByContinue(ItemsOf(Content)[i])
    /\ ret.result.ok /\ Len(ret.result.value) = 1

\* Well-formed JSON without a top-level findings array
LacksFindingsArray == HasContent /\ Content # Malformed /\ ~IsFindingsArray(Content)

\* C6 as stated: a well-formed JSON response that lacks the top-level
\* findings array makes _parse_response raise.
C6_AsStated == (Done /\ LacksFindingsArray) => ~ret.result.ok

\* Nothing to iterate over: no findings key, or an empty string or object as findings
IteratesNothing(c) ==
    /\ IsDict(c)
    /\ \/ "findings" \notin DOMAIN c
       \/ IsDict(c.findings) /\ DOMAIN c.findings = {}
       \/ ~IsDict(c.findings) /\ c.findings = JStr(<<>>)

\* C6 (amended): a well-formed JSON response that lacks the top-level
\* findings array makes _parse_response raise, except a JSON object with no
\* findings key (or whose findings is an empty string or object), for which
\* it returns the empty list.
C6_MissingKeyReturnsEmpty ==
    (Done /\ LacksFindingsArray) =>
        IF IteratesNothing(Content) THEN ret.result = Return(<<>>) ELSE ~ret.result.ok

C6_Witness ==
    /\ Done /\ HasContent /\ IsDict(Content) /\ "findings" \notin DOMAIN Content
    /\ ret.result = Return(<<>>)

\* What the claim says the confidence of an item's finding is
ExpectedConfidence(item) ==
    IF "confidence" \notin DOMAIN item THEN JNum(Hundredths(80))
    ELSE LET raw == item.confidence
         IN  IF raw.v > One THEN JNum(One) ELSE IF raw.v < 0 THEN JNum(0) ELSE raw

\* C7: every finding's confidence is a number within [0, 1]; when no item
\* was dropped, the finding of an item with a numeric raw confidence has it
\* clamped (above 1 to 1, below 0 to 0, inside kept), and the finding of an
\* item without a confidence has 0.8.
C7_ConfidenceClamped ==
    (Done /\ ret.result.ok) =>
        /\ \A i \in DOMAIN ret.result.value :
              LET c == ret.result.value[i].confidence
              IN  c.t = "num" /\ 0 <= c.v /\ c.v <= One
        /\ (IsFindingsArray(Content) /\ Len(ret.result.value) = Len(ItemsOf(Content))) =>
              \A i \in DOMAIN ret.result.value :
                  LET item == ItemsOf(Content)[i]
                  IN  ("confidence" \in DOMAIN item => item.confidence.t = "num") =>
                          ret.result.value[i].confidence = ExpectedConfidence(item)

\* A raw confidence of 1.5 returned as 1.0, beside a missing one returned as 0.8
C7_Witness ==
    /\ Done /\ ret.result.ok /\ IsFindingsArray(Content)
    /\ Len(ret.result.value) = 2 /\ Len(ItemsOf(Content)) = 2
    /\ "confidence" \in DOMAIN ItemsOf(Content)[1]
    /\ ItemsOf(Content)[1].confidence = JNum(Hundredths(150))
    /\ ret.result.value[1].confidence = JNum(One)
    /\ "confidence" \notin DOMAIN ItemsOf(Content)[2]
    /\ ret.result.value[2].confidence = JNum(Hundredths(80))

---------------------------------------------------------------------------
(* Claims about detect and detect_async, under SpecDetect *)

Finished(p) == tasks[p].st = "done"
ValidIds == build(pages[1], Taxonomy).value.valid_categories
IsTransient(o) == o.kind = "error" /\ o.error \in _RETRYABLE

\* The findings of page p when its detection succeeded: the service
\* answered and the answer parsed; nothing otherwise
FindingsOfPage(p) ==
    IF Finished(p) /\ tasks[p].last.kind = "response"
    THEN LET r == _parse_response(tasks[p].last.response, pages[p], ValidIds)
         IN  IF r.ok THEN r.value ELSE <<>>
    ELSE <<>>

InPageOrder == Flatten([p \in DOMAIN pages |-> FindingsOfPage(p)])

\* C2 as stated: sequential detect never raises, whatever fails during a
\* page's detection; when it returns, every non-blank page was processed
\* and the result is the concatenation in page order of the findings of the
\* pages that succeeded.
C2_AsStated ==
    Sequential =>
        /\ dpc # "raised"
        /\ dpc = "returned" =>
              /\ \A p \in DOMAIN pages : NonBlank(pages[p]) => Finished(p)
              /\ all_findings = InPageOrder

\* C3: in detect_async with an async client, a task exists for exactly the
\* non-blank pages; a finished task's result is decided by its own page and
\* its own call alone; a step of one task leaves every other task as it was;
\* and what is returned is, in page order, the findings of the tasks that
\* succeeded, all dispatched tasks having finished.
C3_TasksIndependent ==
    /\ [](~Sequential /\ dpc \in {"gather", "returned"} =>
            /\ \A p \in DOMAIN pages :
                  /\ tasks[p].st # "none" <=> NonBlank(pages[p])
                  /\ Finished(p) =>
                        tasks[p].result = _detect_page(pages[p], Taxonomy, tasks[p].last)
            /\ dpc = "returned" =>
                  /\ \A p \in DOMAIN pages : NonBlank(pages[p]) => Finished(p)
                  /\ all_findings = InPageOrder)
    /\ [][~Sequential /\ dpc = "gather" =>
            \A p, q \in DOMAIN pages :
                (p # q /\ tasks'[p] # tasks[p]) => tasks'[q] = tasks[q]]_vars

\* Two tasks, the first failed after its last retry, the second's findings returned
C3_Witness ==
    /\ ~Sequential /\ dpc = "returned" /\ Len(pages) = 2
    /\ IsTransient(tasks[1].last) /\ tasks[1].attempts = MaxAttempts
    /\ tasks[2].last.kind = "response"
    /\ all_findings # <<>>
    /\ all_findings = tasks[2].result.value

\* C5: a response whose content is not JSON makes _parse_response raise
\* JSONDecodeError to its caller, while the page-level call that received it
\* returns the empty list and detect / detect_async do not raise.
C5_TwoLayers ==
    \A p \in DOMAIN tasks :
        (Finished(p) /\ tasks[p].last.kind = "response"
            /\ tasks[p].last.response.choices = <<Malformed>>) =>
            /\ _parse_response(tasks[p].last.response, pages[p], ValidIds)
                  = Raise("JSONDecodeError")
            /\ tasks[p].result = Return(<<>>)
            /\ dpc # "raised"

\* Page 1 answered with text that is not JSON, page 2's findings returned
C5_Witness ==
    /\ dpc = "returned" /\ Len(pages) = 2
    /\ Finished(1) /\ tasks[1].last.kind = "response"
    /\ tasks[1].last.response.choices = <<Malformed>>
    /\ Finished(2) /\ all_findings # <<>>

---------------------------------------------------------------------------
(* Claims about the retry policy and the pipeline's stages, under Spec *)

Attempted(p) == tasks[p].attempts >= 1
TimesRun(stage) == Cardinality({i \in DOMAIN stages : stages[i].stage = stage})

\* C4: for every page, another attempt of the call is under way exactly when
\* the previous attempt failed with a transient error and fewer than 3
\* attempts were made; the outcome of a finished call is a response, a
\* non-transient failure, or the transient failure of the 3rd attempt (so a
\* non-transient failure is never followed by another attempt); no page is
\* called more than 3 times, and the pipeline calls the detector at most once.
C4_RetryPolicy ==
    /\ \A p \in DOMAIN tasks :
          LET t == tasks[p]
          IN  /\ t.attempts <= 3
              /\ (t.st = "calling" /\ Attempted(p)) =>
                    (IsTransient(t.last) /\ t.attempts < 3)
              /\ (t.st = "done" /\ Attempted(p)) =>
                    \/ t.last.kind = "response"
                    \/ t.last.kind = "error" /\ t.last.error \notin _RETRYABLE
                    \/ IsTransient(t.last) /\ t.attempts = 3
              /\ (t.st \in {"none", "ready"}) => t.attempts = 0
    /\ TimesRun("detect") <= 1

\* A pipeline run has returned; one page was called three times and gave up
\* on a transient failure, another stopped at its first, non-transient failure
C4_Witness ==
    /\ ppc = "returned"
    /\ \E p \in DOMAIN tasks :
          tasks[p].st = "done" /\ tasks[p].attempts = 3 /\ IsTransient(tasks[p].last)
    /\ \E p \in DOMAIN tasks :
          /\ tasks[p].st = "done" /\ tasks[p].attempts = 1
          /\ tasks[p].last = ApiError("AuthenticationError")

StageOrder == <<"extract", "detect", "filter", "mode", "redact", "assemble">>

PassedFilter(f) ==
    "confidence_threshold" \in DOMAIN config =>
        (IF config.confidence_threshold > One
         THEN f.confidence.v * 100 >= config.confidence_threshold
         ELSE f.confidence.v >= config.confidence_threshold)

\* The same findings, whatever boxes the redactor has attached since
SameFindings(a, b) ==
    /\ Len(a) = Len(b)
    /\ \A i \in DOMAIN a :
          /\ a[i].text = b[i].text /\ a[i].category = b[i].category
          /\ a[i].subcategory = b[i].subcategory /\ a[i].page_number = b[i].page_number
          /\ a[i].confidence = b[i].confidence /\ a[i].rationale = b[i].rationale
          /\ a[i].replacement = b[i].replacement

\* C8: under process and process_async alike, the stages run so far are a
\* prefix of extract, detect, confidence filter, mode policy, redact,
\* assemble (none twice, none before its predecessor ended: the filter runs
\* only once the detector has returned), a run that returns has run all six;
\* the mode policy and the redactor are given only findings that passed the
\* confidence filter, and the result holds the findings given to the redactor.
C8_StagesInOrder ==
    /\ Len(stages) <= Len(StageOrder)
    /\ \A i \in DOMAIN stages : stages[i].stage = StageOrder[i]
    /\ ppc = "returned" => Len(stages) = Len(StageOrder)
    /\ TimesRun("filter") = 1 => dpc = "returned"
    /\ \A i \in DOMAIN stages :
          stages[i].stage \in {"mode", "redact"} =>
              \A k \in DOMAIN stages[i].given : PassedFilter(stages[i].given[k])
    /\ ppc = "returned" => SameFindings(result.value.findings, stages[5].given)

\* A run of process_async that returned after the filter dropped a finding
C8_Witness ==
    /\ ppc = "returned" /\ entry = "detect_async"
    /\ Len(stages[3].given) > Len(stages[4].given)
    /\ result.value.findings # <<>>

\* C10: in mask mode, once the mode policy has run, every finding has an
\* empty replacement, and so has every annotation of the output.
C10_MaskClearsReplacements ==
    (mode = "mask" /\ TimesRun("mode") = 1) =>
        /\ \A i \in DOMAIN findings : findings[i].replacement = <<>>
        /\ output.saved => \A a \in DOMAIN output.annots : output.annots[a].text = <<>>

\* Mask mode was handed findings carrying the detector's tags and cleared them
C10_Witness ==
    /\ mode = "mask" /\ ppc = "returned"
    /\ stages[4].given # <<>>
    /\ \A i \in DOMAIN stages[4].given : stages[4].given[i].replacement # <<>>
    /\ output.annots # <<>>

---------------------------------------------------------------------------
(* Claims about _apply_confidence_filter, under SpecFilter *)

FilterDone == ret.state = "done" /\ "findings" \in DOMAIN args

\* What the claim says the threshold resolves to, times 100 where that is
\* v/100, so that the comparison stays in whole numbers
Retained(f) ==
    LET v == args.config.confidence_threshold
    IN  IF v > One THEN 100 * f.confidence.v >= v ELSE f.confidence.v >= v

RetainedIndices == {i \in DOMAIN args.findings : Retained(args.findings[i])}

\* C9: with a threshold v supplied, the filter's result is, in their order,
\* the findings whose confidence is at least v/100 when v > 1 and at least v
\* otherwise; threshold 70 on confidences 0.5, 0.7, 0.9 keeps the two
\* findings 0.7 and 0.9; with no threshold the result is every finding.
C9_ConfidenceFilter ==
    FilterDone =>
        IF "confidence_threshold" \notin DOMAIN args.config
        THEN ret.result = args.findings
        ELSE /\ Len(ret.result) = Cardinality(RetainedIndices)
             /\ \A k \in DOMAIN ret.result :
                   \E i \in RetainedIndices :
                      /\ Cardinality({j \in RetainedIndices : j <= i}) = k
                      /\ ret.result[k] = args.findings[i]
             /\ (/\ args.config.confidence_threshold = 70 * One
                 /\ [i \in DOMAIN args.findings |-> args.findings[i].confidence.v]
                       = <<Hundredths(50), Hundredths(70), Hundredths(90)>>)
                => [k \in DOMAIN ret.result |-> ret.result[k].confidence.v]
                       = <<Hundredths(70), Hundredths(90)>>

\* Threshold 70 applied to confidences 0.5, 0.7, 0.9
C9_Witness ==
    /\ FilterDone
    /\ "confidence_threshold" \in DOMAIN args.config
    /\ args.config.confidence_threshold = 70 * One
    /\ [i \in DOMAIN args.findings |-> args.findings[i].confidence.v]
          = <<Hundredths(50), Hundredths(70), Hundredths(90)>>
    /\ Len(ret.result) = 2

---------------------------------------------------------------------------
(* Claims about the mode policy, under SpecMode *)

ModeDone == ret.state = "done"
KeyOf(f) == CacheKey(f.category, f.text)

\* The first finding of the document with the category and text of finding i
FirstWithKey(i) ==
    CHOOSE j \in 1..i :
        /\ KeyOf(args.findings[j]) = KeyOf(args.findings[i])
        /\ \A k \in 1..(j - 1) : KeyOf(args.findings[k]) # KeyOf(args.findings[i])

\* C11 as stated: in synthetic mode (the pipeline having a synthesizer to
\* generate with), any two findings of one run with the same original text
\* have the same replacement after the mode policy.
C11_AsStated ==
    (ModeDone /\ mode = "synthetic" /\ ret.before.some) =>
        \A i, j \in DOMAIN ret.result :
            ret.result[i].text = ret.result[j].text =>
                ret.result[i].replacement = ret.result[j].replacement

C13_PlaceholderLeavesReplacements ==
    (args.mode \notin {"mask", "synthetic"}) =>
        /\ mode = "placeholder"
        /\ ModeDone => (ret.result = args.findings /\ synthesizer = ret.before)

\* The mode policy has run for a pipeline constructed with the mode "redact"
C13_Witness ==
    /\ args.mode \notin VALID_MODES
    /\ ModeDone
    /\ args.findings # <<>>
    /\ \A i \in DOMAIN ret.result : ret.result[i].replacement # <<>>

\* C14: in synthetic mode with a synthesizer, whatever documents the
\* instance processed before, a document's replacements are those generated
\* from an empty cache with this run's draws, and the cache afterwards holds
\* exactly the entries of this document's findings.
C14_CacheScopedToDocument ==
    (ModeDone /\ mode = "synthetic" /\ ret.before.some) =>
        /\ ret.result = Synthesize(args.findings, EmptyCache, ret.picks, 1).findings
        /\ DOMAIN synthesizer.value = {KeyOf(args.findings[i]) : i \in DOMAIN args.findings}
        /\ \A i \in DOMAIN ret.result :
              synthesizer.value[KeyOf(args.findings[i])] = ret.result[i].replacement

\* A second document with a finding the cache held an entry for when the
\* run began, which got a different replacement than that entry
C14_Witness ==
    /\ ModeDone /\ mode = "synthetic" /\ ret.before.some
    /\ args.document = 2
    /\ \E i \in DOMAIN args.findings :
          /\ KeyOf(args.findings[i]) \in DOMAIN ret.before.value
          /\ ret.result[i].replacement # ret.before.value[KeyOf(args.findings[i])]

---------------------------------------------------------------------------
(* Claims about fatal errors of the pipeline, under Spec *)

RunEnded == ppc \in {"returned", "raised"}

---------------------------------------------------------------------------
(* Claims about apply_redactions, under SpecRedact *)

Applied == ret.pc = "returned"
OnDocument(i) == ret.findings[i].page_number < Len(args.document.pages)
PageTextOf(i) == args.document.pages[ret.findings[i].page_number + 1].text
LogOf(op) == SelectSeq(ret.log, LAMBDA e : e.op = op)
SearchesOf(i) == SelectSeq(ret.log, LAMBDA e : e.op = "search" /\ e.finding = i)
Handled(i) == SearchesOf(i) # <<>>
AnnotsOf(i) == Len(SelectSeq(ret.log, LAMBDA e : e.op = "annot" /\ e.finding = i))
BoxesOf(i) == Len(ret.findings[i].bounding_boxes)

\* The places of a page's text where needle stands, counted without the search
Occurrences(text, needle) ==
    Cardinality({p \in 1..Len(text) :
                    /\ needle # <<>>
                    /\ p + Len(needle) - 1 <= Len(text)
                    /\ SubSeq(text, p, p + Len(needle) - 1) = needle})

RECURSIVE SumAnnots(_)
SumAnnots(n) == IF n = 0 THEN 0 ELSE AnnotsOf(n) + SumAnnots(n - 1)

Unlocatable(i) ==
    /\ OnDocument(i)
    /\ Occurrences(PageTextOf(i), ret.findings[i].text) = 0
    /\ Occurrences(PageTextOf(i), join(split(ret.findings[i].text))) = 0

\* C17: a finding located neither by the exact nor by the normalized search
\* gets no annotation and an empty list of boxes, and stays in the list; the
\* call has no failing step; a normalized search is made only right after an
\* exact search of the same finding that found nothing.
C17_MissIsSkipped ==
    /\ \A i \in DOMAIN ret.findings :
          (Handled(i) /\ Unlocatable(i)) =>
             AnnotsOf(i) = 0 /\ ret.findings[i].bounding_boxes = <<>>
    /\ Len(ret.findings) = Len(args.findings)
    /\ \A i \in DOMAIN ret.findings :
          /\ ret.findings[i].text = args.findings[i].text
          /\ ret.findings[i].page_number = args.findings[i].page_number
          /\ ret.findings[i].replacement = args.findings[i].replacement
    /\ \A n \in DOMAIN ret.log :
          (ret.log[n].op = "search" /\ ret.log[n].kind = "normalized") =>
             /\ n > 1
             /\ ret.log[n - 1].op = "search" /\ ret.log[n - 1].kind = "exact"
             /\ ret.log[n - 1].finding = ret.log[n].finding
             /\ ret.log[n - 1].found = 0
    /\ \A i \in DOMAIN ret.findings :
          Len(SelectSeq(SearchesOf(i), LAMBDA e : e.kind = "exact")) <= 1

C17_Witness ==
    /\ Applied /\ ret.saved
    /\ \E i \in DOMAIN ret.findings :
          /\ Handled(i) /\ Unlocatable(i) /\ Len(SearchesOf(i)) = 2
          /\ ret.findings[i].bounding_boxes = <<>>
    /\ \E i \in DOMAIN ret.findings : AnnotsOf(i) = 2

\* C18: the second application to the same input with the same findings
\* returns the count of the first and leaves every finding with the boxes it
\* had after the first.
C18_SecondApplicationSame ==
    (Applied /\ ret.application = "second") =>
       /\ ret.redaction_count = ret.first.value.redaction_count
       /\ \A i \in DOMAIN ret.findings :
             ret.findings[i].bounding_boxes = ret.first.value.findings[i].bounding_boxes

C18_Witness ==
    /\ Applied /\ ret.application = "second"
    /\ ret.redaction_count >= 2
    /\ \E i \in DOMAIN ret.findings : BoxesOf(i) = 2

PagesWithFindings ==
    {ret.findings[i].page_number : i \in {i \in DOMAIN ret.findings : OnDocument(i)}}
CommitsOf(p) == {n \in DOMAIN ret.log : ret.log[n].op = "commit" /\ ret.log[n].page = p}
WorkOn(p) == {n \in DOMAIN ret.log : ret.log[n].op \in {"search", "annot"} /\ ret.log[n].page = p}

\* C19: a page with findings is committed once, after every finding of the
\* page was searched and annotated and before any search or annotation on
\* another page; nothing is searched on a committed page; the document is
\* saved after every page with findings was committed.
C19_CommitOrder ==
    /\ \A p \in PagesWithFindings :
          /\ Cardinality(CommitsOf(p)) <= 1
          /\ Applied => Cardinality(CommitsOf(p)) = 1
          /\ \A m \in CommitsOf(p) :
                /\ \A n \in WorkOn(p) : n < m
                /\ \A i \in DOMAIN ret.findings :
                      ret.findings[i].page_number = p =>
                         \E n \in WorkOn(p) :
                            n < m /\ ret.log[n].op = "search" /\ ret.log[n].finding = i
          /\ \A q \in PagesWithFindings \ {p} :
                \A n \in WorkOn(p), n2 \in WorkOn(q) :
                   n < n2 => \E m \in CommitsOf(p) : n < m /\ m < n2
    /\ \A n \in DOMAIN ret.log :
          /\ ret.log[n].op = "commit" => ret.log[n].page \in PagesWithFindings
          /\ ret.log[n].op = "save" =>
                /\ n = Len(ret.log)
                /\ \A p \in PagesWithFindings : \E m \in CommitsOf(p) : m < n
    /\ Applied => (ret.saved /\ ret.log[Len(ret.log)].op = "save")

C19_Witness ==
    /\ Applied
    /\ Len(LogOf("commit")) = 2
    /\ \A p \in PagesWithFindings : \E n \in WorkOn(p) : ret.log[n].op = "annot"
    /\ \E i, j \in DOMAIN ret.findings :
          i + 1 < j /\ ret.findings[i].page_number = ret.findings[j].page_number
                    /\ ret.findings[i + 1].page_number # ret.findings[i].page_number

\* C20: every annotation is rendered by its finding's replacement alone: an
\* empty one gives the fill colour and no text, one beginning with "[" the
\* tag style (dark fill, white Courier text), any other the synthetic style
\* (white fill, blue Helvetica text); the three cases exclude each other and
\* leave no replacement out.
C20_StyleByReplacement ==
    /\ Len(LogOf("annot")) = Len(ret.annots)
    /\ \A k \in DOMAIN ret.annots :
          LET a == ret.annots[k]
              r == ret.findings[LogOf("annot")[k].finding].replacement
              opaque == /\ a.text = <<>> /\ a.fontname = None /\ a.text_color = None
                        /\ a.fill = fill_color
              tag == /\ a.text = r /\ a.fontname = Some("cour")
                     /\ a.fill = <<15, 15, 22>> /\ a.text_color = Some(<<100, 100, 100>>)
              synthetic == /\ a.text = r /\ a.fontname = Some("helv")
                           /\ a.fill = <<100, 100, 100>> /\ a.text_color = Some(<<10, 10, 60>>)
          IN  /\ r = <<>> => (opaque /\ ~tag /\ ~synthetic)
              /\ (r # <<>> /\ Head(r) = "[") => (tag /\ ~opaque /\ ~synthetic)
              /\ (r # <<>> /\ Head(r) # "[") => (synthetic /\ ~opaque /\ ~tag)

C20_Witness ==
    /\ Applied
    /\ {ret.annots[k].fontname : k \in DOMAIN ret.annots} = {None, Some("cour"), Some("helv")}

---------------------------------------------------------------------------
(* Claims about the mode policy together with the redactor, under SpecRender *)

\* C21 as stated: in a run of mode m every annotation the redactor adds has
\* the style of m: mask only opaque fills, placeholder only tag marks,
\* synthetic only synthetic marks, whatever the category and the
\* detector-assigned replacement.
C21_AsStated ==
    output.saved =>
       \A a \in DOMAIN output.annots : output.annots[a].style = mode

---------------------------------------------------------------------------
(* Claims about the extractor, under SpecExtract *)

NativeOf(i) == args.document.pages[i].text
OcrCalled(i) == \E c \in DOMAIN ret.ocr_calls : ret.ocr_calls[c] = i - 1
OcrUnusable(i) == ~args.available \/ ~args.document.pages[i].tesseract.ok

\* C22: OCR runs for a page only if its stripped text layer is shorter than
\* 30 characters and OCR is enabled; the OCR text is adopted only if its
\* stripped length is greater than the text layer's; is_ocr is true exactly
\* for the pages whose text is the OCR text; with Tesseract unavailable or
\* failing the page keeps its text layer, is_ocr is false and extract returns
\* a page for every page of the document.
C22_OcrFallback ==
    /\ \A i \in DOMAIN ret.pages :
          LET p == ret.pages[i]
              t == args.document.pages[i].tesseract
          IN  /\ p.page_number = i - 1
              /\ OcrCalled(i) => (Len(strip(NativeOf(i))) < 30 /\ enable_ocr)
              /\ p.is_ocr =>
                    /\ OcrCalled(i) /\ args.available /\ t.ok
                    /\ p.text = t.value
                    /\ Len(strip(t.value)) > Len(strip(NativeOf(i)))
              /\ ~p.is_ocr => p.text = NativeOf(i)
              /\ OcrUnusable(i) => (~p.is_ocr /\ p.text = NativeOf(i))
    /\ ret.pc = "returned" => Len(ret.pages) = Len(args.document.pages)

C22_Witness ==
    /\ ret.pc = "returned"
    /\ \E i, j \in DOMAIN ret.pages :
          /\ ret.pages[i].is_ocr /\ Len(strip(NativeOf(i))) = 29
          /\ OcrCalled(j) /\ ~args.document.pages[j].tesseract.ok /\ ~ret.pages[j].is_ocr

---------------------------------------------------------------------------
(* Claims about the benchmark scorer, under SpecBenchmark *)

Scored == {i \in DOMAIN ret.per_doc : ret.per_doc[i].error = ""}
TruthPairs(i) ==
    {<<_normalize(args[i].ground_truth[k].text), args[i].ground_truth[k].category>> :
        k \in DOMAIN args[i].ground_truth}
DetectedPairs(i) ==
    {<<_normalize(args[i].detected.value[k].text), args[i].detected.value[k].category>> :
        k \in DOMAIN args[i].detected.value}

\* Lowercase, trimmed, words one blank apart, and the words of the original
IsNormalized(n, original) ==
    /\ \A k \in DOMAIN n : n[k] \notin {"J", "O", "\n", "\t"}
    /\ n # <<>> => (n[1] # " " /\ n[Len(n)] # " ")
    /\ \A k \in 1..(Len(n) - 1) : ~(n[k] = " " /\ n[k + 1] = " ")
    /\ split(n) = split(LowerText(original))

\* C23: the matcher compares sets of (normalized text, category) pairs: tp
\* is the intersection, fp the detected-only pairs, fn the truth-only pairs;
\* they are pairwise disjoint, tp with fn is the truth set, tp with fp the
\* detected set, and a pair listed more than once counts once.
C23_SetMatch ==
    /\ \A i \in Scored :
          LET m == ret.per_doc[i].matched
              T == TruthPairs(i)
              D == DetectedPairs(i)
          IN  /\ m.tp = T \cap D /\ m.fp = D \ T /\ m.fn = T \ D
              /\ m.tp \cap m.fp = {} /\ m.tp \cap m.fn = {} /\ m.fp \cap m.fn = {}
              /\ m.tp \cup m.fn = T /\ m.tp \cup m.fp = D
              /\ ret.per_doc[i].tp + ret.per_doc[i].fn = Cardinality(T)
              /\ ret.per_doc[i].tp + ret.per_doc[i].fp = Cardinality(D)
              /\ Cardinality(T) <= Len(args[i].ground_truth)
              /\ Cardinality(D) <= Len(args[i].detected.value)
    /\ \A i \in Scored :
          /\ \A k \in DOMAIN args[i].ground_truth :
                IsNormalized(_normalize(args[i].ground_truth[k].text),
                             args[i].ground_truth[k].text)
          /\ \A k \in DOMAIN args[i].detected.value :
                IsNormalized(_normalize(args[i].detected.value[k].text),
                             args[i].detected.value[k].text)

C23_Witness ==
    \E i \in Scored :
       /\ Len(args[i].detected.value) = 3
       /\ ret.per_doc[i].tp = 1 /\ ret.per_doc[i].fp = 1 /\ ret.per_doc[i].fn = 1

\* The scores computed so far, each with the counts they were computed from
ScoresComputed ==
    {ret.per_doc[i] : i \in Scored}
    \cup (IF ret.overall.some
          THEN {[tp |-> ret.total_tp, fp |-> ret.total_fp, fn |-> ret.total_fn,
                 scores |-> ret.overall.value]}
          ELSE {})
    \cup (IF ret.per_category.some
          THEN {ret.per_category.value[c] : c \in DOMAIN ret.per_category.value}
          ELSE {})

\* C24: no computation of the scores divides by zero; precision is
\* tp/(tp+fp), or 0 when tp+fp is 0; recall is tp/(tp+fn), or 0 when tp+fn is
\* 0; F1 is the harmonic mean 2pr/(p+r) = 2tp/(2tp+fp+fn), or 0 when both are
\* 0; no detection against one truth item scores precision 0 and recall 0.
C24_MetricsGuarded ==
    /\ ret.pc # "raised"
    /\ \A x \in ScoresComputed :
          LET pr == x.scores.precision
              rc == x.scores.recall
              f1 == x.scores.f1
          IN  /\ pr[2] # 0 /\ rc[2] # 0 /\ f1[2] # 0
              /\ IF x.tp + x.fp = 0 THEN pr[1] = 0
                 ELSE pr[1] * (x.tp + x.fp) = x.tp * pr[2]
              /\ IF x.tp + x.fn = 0 THEN rc[1] = 0
                 ELSE rc[1] * (x.tp + x.fn) = x.tp * rc[2]
              /\ IF pr[1] = 0 /\ rc[1] = 0 THEN f1[1] = 0
                 ELSE /\ f1[1] * (2 * x.tp + x.fp + x.fn) = 2 * x.tp * f1[2]
                      /\ f1[1] * (pr[1] * rc[2] + rc[1] * pr[2]) * pr[2] * rc[2]
                            = 2 * pr[1] * rc[1] * pr[2] * rc[2] * f1[2]
              /\ (x.tp = 0 /\ x.fp = 0 /\ x.fn = 1) => (pr[1] = 0 /\ rc[1] = 0)

C24_Witness ==
    /\ ret.pc = "reported"
    /\ \E i \in Scored :
          /\ Len(args[i].ground_truth) = 1 /\ args[i].detected.value = <<>>
          /\ ret.per_doc[i].scores.precision = Zero /\ ret.per_doc[i].scores.recall = Zero
    /\ \E x \in ScoresComputed : x.tp > 0 /\ x.fp > 0 /\ x.fn > 0 /\ x.scores.f1[1] > 0

---------------------------------------------------------------------------
(* Claims that compare detect with detect_async, under SpecDetect *)

\* What the task of page p holds when gather is done, in a detect_async run
\* with an async client on the same page and taxonomy whose call surfaced the
\* outcome tasks[p].last
AsyncTask(p) ==
    IF NonBlank(pages[p])
    THEN [TaskInit EXCEPT !.st = "done", !.last = tasks[p].last,
                          !.result = _detect_page(pages[p], Taxonomy, tasks[p].last)]
    ELSE TaskInit

\* C25 as stated: with the same pages, taxonomy and per-page outcomes (a
\* failure to build a page's request included) detect and detect_async with
\* an async client both return or both raise, and return the same findings
\* in the same page order: an ended detect returned what detect_async merges
\* from these outcomes, and no task of a returned detect_async holds an
\* exception that detect would have raised.
C25_AsStated ==
    /\ (entry = "detect" /\ dpc \in {"returned", "raised"}) =>
          /\ dpc = "returned"
          /\ all_findings = Merge([p \in DOMAIN pages |-> AsyncTask(p)])
    /\ (~Sequential /\ dpc = "returned") =>
          /\ \A p \in DOMAIN pages : NonBlank(pages[p]) => tasks[p].result.ok
          /\ all_findings = InPageOrder

---------------------------------------------------------------------------
(* Claims about defective items, under SpecParse *)

ItemsGiven == IF Done /\ HasContent /\ IsFindingsArray(Content) THEN ItemsOf(Content) ELSE <<>>

\* An item that passes both checks but has no text key, or whose confidence
\* is not a number
Defective(item) ==
    /\ IsDict(item)
    /\ CategoryIsMember(item) /\ TextOccurs(item)
    /\ \/ "text" \notin DOMAIN item
       \/ /\ "confidence" \in DOMAIN item
          /\ (IsDict(item.confidence) \/ item.confidence.t \notin {"num", "nan"})

\* The page-level wrapper on the same response, page and taxonomy
PageLevel ==
    TryBlock(args.page, [valid_categories |-> args.valid_categories],
             ApiResponse(args.response))

\* C26: when _parse_response returns, the items missing from its result are
\* exactly those with a category outside the taxonomy or a text not in the
\* page; an item that passes both checks but has no text key or a
\* non-numeric confidence makes it raise, and the page-level wrapper then
\* gives no finding for the page, valid items before the defective one
\* included.
C26_DefectiveItemRaises ==
    /\ (ItemsGiven # <<>> /\ ret.result.ok) =>
          LET kept == SelectSeq(ItemsGiven, PassesBothChecks)
          IN  /\ Len(ret.result.value) = Len(kept)
              /\ \A i \in DOMAIN kept :
                    /\ IsDict(kept[i])
                    /\ ret.result.value[i].text = kept[i].text.v
                    /\ ret.result.value[i].category = kept[i].category.v
    /\ (\E i \in DOMAIN ItemsGiven : Defective(ItemsGiven[i])) =>
          /\ ~ret.result.ok
          /\ PageLevel = Return(<<>>)

C26_Witness ==
    /\ Len(ItemsGiven) = 2
    /\ ParseOf(<<ItemsGiven[1]>>).ok /\ Len(ParseOf(<<ItemsGiven[1]>>).value) = 1
    /\ Defective(ItemsGiven[2]) /\ "text" \in DOMAIN ItemsGiven[2]
    /\ ~ret.result.ok /\ PageLevel = Return(<<>>)

---------------------------------------------------------------------------
(* Claims about overlapping runs, under SpecOverlap *)

\* The first finding of run r with the category and text of its finding i
FirstOfRun(r, i) ==
    CHOOSE j \in 1..i :
        /\ KeyOf(args[r][j]) = KeyOf(args[r][i])
        /\ \A k \in 1..(j - 1) : KeyOf(args[r][k]) # KeyOf(args[r][i])

\* C27: in each of two overlapping process_async runs on one instance, after
\* the run's mode policy equal (category, text) pairs have equal
\* replacements, and every replacement is the value generated in this run
\* for the first finding of the run with that category and text, whatever
\* the other run left in the cache.
C27_RunsDoNotShareCache ==
    \A r \in 1..2 :
       ret[r].pc = "returned" =>
          /\ Len(ret[r].findings) = Len(args[r])
          /\ \A i, j \in DOMAIN ret[r].findings :
                KeyOf(ret[r].findings[i]) = KeyOf(ret[r].findings[j]) =>
                   ret[r].findings[i].replacement = ret[r].findings[j].replacement
          /\ \A i \in DOMAIN ret[r].findings :
                ret[r].findings[i].replacement =
                   Generator(args[r][i].category,
                             args[r][FirstOfRun(r, i)].subcategory,
                             ret[r].picks[FirstOfRun(r, i)])

C27_Witness ==
    /\ \A r \in 1..2 : ret[r].pc = "returned" /\ ret[r].overlapped
    /\ \E i \in DOMAIN ret[1].findings, j \in DOMAIN ret[2].findings :
          /\ KeyOf(ret[1].findings[i]) = KeyOf(ret[2].findings[j])
          /\ ret[1].findings[i].replacement # ret[2].findings[j].replacement

---------------------------------------------------------------------------
(* Claims about whole-number thresholds, under SpecFilter *)

\* The thresholds of the samples that are whole numbers from 0 to 100, as the
\* API schema accepts them
Percentages == {v \in ThresholdSamples : v % One = 0 /\ v <= 100 * One}

\* C28 as stated: a threshold that is a whole number p from 0 to 100
\* resolves to p/100, the filter keeps the findings whose confidence is at
\* least p/100, and no greater whole number from 0 to 100 keeps more
\* findings of the same list.
C28_AsStated ==
    (FilterDone /\ "confidence_threshold" \in DOMAIN args.config
                /\ args.config.confidence_threshold \in Percentages) =>
       LET v == args.config.confidence_threshold
       IN  /\ 100 * ResolveThreshold(v) = v
           /\ ret.result = SelectSeq(args.findings, LAMBDA f : 100 * f.confidence.v >= v)
           /\ \A q \in Percentages :
                 q >= v =>
                    Len(_apply_confidence_filter(args.findings, [confidence_threshold |-> q]))
                       <= Len(ret.result)


----------------------------------------------------------------------------
(* C29 *)

DetectEnded == dpc \in {"returned", "raised"}

TaskSettled(p) == tasks[p].st \in {"none", "done"}

\* C29: when every service call eventually returns or fails, detect and
\* detect_async end, whatever the pages and whatever fails; and detect_async
\* with an async client has returned only when every page task it dispatched
\* is complete and the findings of every task that succeeded are merged
C29_TerminatesAfterAllTasks ==
    /\ <>DetectEnded
    /\ []((dpc = "returned" /\ ~Sequential) =>
            /\ \A p \in DOMAIN pages :
                  /\ TaskSettled(p)
                  /\ NonBlank(pages[p]) => tasks[p].st = "done"
            /\ all_findings = Merge(tasks))

\* detect_async has returned after two page tasks, one of which used up its
\* attempts on transient errors while the other one succeeded
C29_Witness ==
    /\ dpc = "returned" /\ ~Sequential
    /\ \E p, q \in DOMAIN pages :
          /\ tasks[p].st = "done" /\ IsTransient(tasks[p].last)
          /\ tasks[p].attempts = MaxAttempts
          /\ tasks[q].st = "done" /\ tasks[q].result.ok
          /\ tasks[q].result.value # <<>>

----------------------------------------------------------------------------
(* api/storage/file_storage.py: FileStorage.download_url_to_storage *)

MaxChunks == 2

PDF_CONTENT_TYPES ==
    {"application/pdf", "application/x-pdf", "binary/octet-stream", "application/octet-stream"}

\* A Content-Type header is the sequence of its parts between semicolons, as
\* headers.get("content-type", "") gives it; a missing header is <<"">>
HeaderSamples ==
    {<<"">>, <<"application/pdf">>, <<" Application/PDF ">>,
     <<"application/octet-stream">>, <<"text/html", " charset=utf-8">>}

\* part.strip().lower(), for the parts of HeaderSamples
strip_lower(part) ==
    CASE part = " Application/PDF " -> "application/pdf"
      [] part = " charset=utf-8" -> "charset=utf-8"
      [] OTHER -> part

\* response.headers.get("content-type", "").split(";")[0].strip().lower()
content_type_of(header) == strip_lower(header[1])

\* A file is the sequence of its bytes; the first byte of a file with a known
\* signature stands for the whole signature
Signatures == {"%PDF", "PNG"}
ChunkSamples == {<<"%PDF">>, <<"PNG">>, <<"<">>, <<"x">>, <<"x", "x">>}

\* filetype.guess(path): the kind the leading signature names, None without one
guess(file) ==
    IF file # <<>> /\ Head(file) \in Signatures
    THEN Some([mime |-> IF Head(file) = "%PDF" THEN "application/pdf" ELSE "image/png"])
    ELSE None

_verify_pdf_content(file) ==
    LET kind == guess(file)
    IN  IF ~kind.some THEN Raise("ValueError")
        ELSE IF kind.value.mime # "application/pdf" THEN Raise("ValueError")
        ELSE Return(None)

ConnectError == [kind |-> "error", error |-> "ConnectError"]
HttpResponse(status, header) == [kind |-> "response", status |-> status, header |-> header]

Replies == {ConnectError} \cup {HttpResponse(st, h) : st \in {200, 404}, h \in HeaderSamples}

Dest == "downloads/file_id.pdf"

\* args: what the server sends and settings.max_file_size_bytes; ret: the call's
\* position, the file at dest (None: no file), the loop's locals and the outcome
InitDownload ==
    /\ \E reply \in Replies, body \in SeqsUpTo(ChunkSamples, MaxChunks), max_bytes \in {1, 3} :
          args = [reply |-> reply, body |-> body, max_bytes |-> max_bytes]
    /\ ret = [pc |-> "request", dest |-> None, downloaded |-> 0, read |-> 0,
              outcome |-> Pending]
    /\ DetectorIdle
    /\ PipelineIdle

\* dest.unlink(missing_ok=True); raise ValueError(...)
UnlinkAndRaise == [ret EXCEPT !.pc = "done", !.dest = None, !.outcome = Raise("ValueError")]

\* lines 87-100: the request, raise_for_status, the Content-Type check, open(dest, "wb")
SendRequest ==
    /\ ret.pc = "request"
    /\ ret' = IF args.reply.kind = "error" \/ args.reply.status >= 400
              THEN UnlinkAndRaise
              ELSE LET content_type == content_type_of(args.reply.header)
                   IN  IF content_type # "" /\ content_type \notin PDF_CONTENT_TYPES
                       THEN [ret EXCEPT !.pc = "done", !.outcome = Raise("ValueError")]
                       ELSE [ret EXCEPT !.pc = "stream", !.dest = Some(<<>>)]
    /\ UNCHANGED <<args, dvars, pvars>>

\* lines 101-111: one chunk of aiter_bytes, and the oversized exit of the loop
ReadChunk ==
    /\ ret.pc = "stream"
    /\ ret.read < Len(args.body)
    /\ LET chunk == args.body[ret.read + 1]
           downloaded == ret.downloaded + Len(chunk)
       IN  ret' = IF downloaded > args.max_bytes
                  THEN [UnlinkAndRaise EXCEPT !.downloaded = downloaded]
                  ELSE [ret EXCEPT !.downloaded = downloaded, !.read = @ + 1,
                                   !.dest = Some(@.value \o chunk)]
    /\ UNCHANGED <<args, dvars, pvars>>

\* lines 115-117: the connection breaks while the body is read
StreamError ==
    /\ ret.pc = "stream"
    /\ ret.read < Len(args.body)
    /\ ret' = UnlinkAndRaise
    /\ UNCHANGED <<args, dvars, pvars>>

\* lines 119-123: the body is read to its end; the magic-byte check; return dest
VerifyAndReturn ==
    /\ ret.pc = "stream"
    /\ ret.read = Len(args.body)
    /\ LET verified == _verify_pdf_content(ret.dest.value)
       IN  ret' = [ret EXCEPT !.pc = "done",
                              !.outcome = IF verified.ok THEN Return(Dest) ELSE verified]
    /\ UNCHANGED <<args, dvars, pvars>>

NextDownload == SendRequest \/ ReadChunk \/ StreamError \/ VerifyAndReturn

SpecDownload == InitDownload /\ [][NextDownload]_vars

----------------------------------------------------------------------------
(* C30 *)

DownloadEnded == ret.pc = "done"

\* C30: download_url_to_storage ends in one of two ways: it returns the
\* destination path, with the file there, within the size limit and verified
\* as a PDF; or it raises ValueError and no file is left at the destination
C30_AsStated ==
    DownloadEnded =>
       \/ /\ ret.outcome = Return(Dest)
          /\ ret.dest.some
          /\ Len(ret.dest.value) <= args.max_bytes
          /\ _verify_pdf_content(ret.dest.value).ok
       \/ /\ ret.outcome = Raise("ValueError")
          /\ ~ret.dest.some

====
